---- MODULE Spec2Model ----
(***************************************************************************)
(* Imposition and costing engine of the print-shop quoting backend         *)
(* (engine/services/impositions.py, engine/services/costs.py).             *)
(*                                                                         *)
(* The engine is a set of pure functions.  Each specification below draws  *)
(* the arguments of one call from a bounded set (Init), and its action     *)
(* applies the function as the code computes it, leaving the returned      *)
(* value in `ret`.                                                         *)
(*                                                                         *)
(* Lengths are whole millimetres.  Python's None is the empty sequence     *)
(* None, a present value v is Some(v).                                     *)
(***************************************************************************)
EXTENDS Integers, Sequences, FiniteSets, TLC

VARIABLES pc, call, ret

vars == <<pc, call, ret>>

None == <<>>

Some(v) == <<v>>

----------------------------------------------------------------------------
(* Bounds of the explored inputs *)

MaxSheet == 7

MaxItem == 3

MaxBleed == 1

MaxGutter == 1

MaxMargin == 1

MaxQty == 9

MaxIps == 6

MaxPages == 10

MaxSig == 4

MaxRules == 2

MaxCopies == 3

MaxSheetCount == 12

----------------------------------------------------------------------------
(* impositions.py *)

(* _to_decimal: a numeric value converts exactly, anything that Decimal()
   rejects (None) becomes Decimal(0). *)
to_decimal(v) ==
    IF v = None THEN 0 ELSE v[1]

(* int(a / b) on Decimals, b # 0: the quotient truncated toward zero. *)
int_quot(a, b) ==
    LET na == IF a < 0 THEN -a ELSE a
        nb == IF b < 0 THEN -b ELSE b
        q  == na \div nb
    IN  IF (a < 0) = (b < 0) THEN q ELSE -q

max2(a, b) ==
    IF a >= b THEN a ELSE b

grid_count_nogutter(av_w, av_h, it_w, it_h, g) ==
    IF it_w <= 0 \/ it_h <= 0
    THEN [count |-> 0, cols |-> 0, rows |-> 0]
    ELSE LET cols == max2(int_quot(av_w, it_w + g), 0)
             rows == max2(int_quot(av_h, it_h + g), 0)
         IN  [count |-> cols * rows, cols |-> cols, rows |-> rows]

grid_count_no_item_guard(av_w, av_h, it_w, it_h, g) ==
    LET raised == (it_w + g = 0) \/ (it_h + g = 0)
        cols0  == IF raised THEN 0 ELSE int_quot(av_w + g, it_w + g)
        rows0  == IF raised THEN 0 ELSE int_quot(av_h + g, it_h + g)
        cols   == max2(cols0, 0)
        rows   == max2(rows0, 0)
    IN  [count |-> cols * rows, cols |-> cols, rows |-> rows]

(* grid_count, the closure inside items_layout.  A zero divisor raises
   inside the try block, which resets both cols and rows to 0. *)
grid_count(av_w, av_h, it_w, it_h, g) ==
    IF it_w <= 0 \/ it_h <= 0
    THEN [count |-> 0, cols |-> 0, rows |-> 0]
    ELSE LET raised == (it_w + g = 0) \/ (it_h + g = 0)
             cols0  == IF raised THEN 0 ELSE int_quot(av_w + g, it_w + g)
             rows0  == IF raised THEN 0 ELSE int_quot(av_h + g, it_h + g)
             cols   == max2(cols0, 0)
             rows   == max2(rows0, 0)
         IN  [count |-> cols * rows, cols |-> cols, rows |-> rows]

items_layout_rot_on_tie(sheet_w, sheet_h, item_w, item_h, bleed, gutter, margin, allow_rotation) ==
    LET eff_w   == item_w + bleed * 2
        eff_h   == item_h + bleed * 2
        avail_w == sheet_w - margin * 2
        avail_h == sheet_h - margin * 2
        g1      == grid_count(avail_w, avail_h, eff_w, eff_h, gutter)
        g2      == grid_count(avail_w, avail_h, eff_h, eff_w, gutter)
    IN  IF avail_w <= 0 \/ avail_h <= 0
        THEN [count |-> 0, cols |-> 0, rows |-> 0, rotated |-> FALSE,
              effective_item_w_mm |-> eff_w, effective_item_h_mm |-> eff_h,
              available_w_mm |-> avail_w, available_h_mm |-> avail_h]
        ELSE IF allow_rotation /\ g2.count >= g1.count
        THEN [count |-> g2.count, cols |-> g2.cols, rows |-> g2.rows, rotated |-> TRUE,
              effective_item_w_mm |-> eff_h, effective_item_h_mm |-> eff_w,
              available_w_mm |-> avail_w, available_h_mm |-> avail_h]
        ELSE [count |-> g1.count, cols |-> g1.cols, rows |-> g1.rows, rotated |-> FALSE,
              effective_item_w_mm |-> eff_w, effective_item_h_mm |-> eff_h,
              available_w_mm |-> avail_w, available_h_mm |-> avail_h]

(* items_layout: the arguments are already Decimals (to_decimal is applied
   where the action binds them). *)
items_layout(sheet_w, sheet_h, item_w, item_h, bleed, gutter, margin, allow_rotation) ==
    LET eff_w   == item_w + bleed * 2
        eff_h   == item_h + bleed * 2
        avail_w == sheet_w - margin * 2
        avail_h == sheet_h - margin * 2
        g1      == grid_count(avail_w, avail_h, eff_w, eff_h, gutter)
        g2      == grid_count(avail_w, avail_h, eff_h, eff_w, gutter)
    IN  IF avail_w <= 0 \/ avail_h <= 0
        THEN [count |-> 0, cols |-> 0, rows |-> 0, rotated |-> FALSE,
              effective_item_w_mm |-> eff_w, effective_item_h_mm |-> eff_h,
              available_w_mm |-> avail_w, available_h_mm |-> avail_h]
        ELSE IF allow_rotation /\ g2.count > g1.count
        THEN [count |-> g2.count, cols |-> g2.cols, rows |-> g2.rows, rotated |-> TRUE,
              effective_item_w_mm |-> eff_h, effective_item_h_mm |-> eff_w,
              available_w_mm |-> avail_w, available_h_mm |-> avail_h]
        ELSE [count |-> g1.count, cols |-> g1.cols, rows |-> g1.rows, rotated |-> FALSE,
              effective_item_w_mm |-> eff_w, effective_item_h_mm |-> eff_h,
              available_w_mm |-> avail_w, available_h_mm |-> avail_h]

(* math.ceil(a / b) for a > 0, b > 0 *)
ceil_div(a, b) ==
    IF a % b = 0 THEN a \div b ELSE (a \div b) + 1

sheets_needed_floor(quantity, ips) ==
    IF quantity <= 0 THEN 0
    ELSE IF ips <= 0 THEN quantity
    ELSE quantity \div ips

sheets_needed(quantity, ips) ==
    IF quantity <= 0 THEN 0
    ELSE IF ips <= 0 THEN quantity
    ELSE ceil_div(quantity, ips)

(* items_per_sheet: the count of items_layout; the arguments may be None. *)
items_per_sheet(sheet_w, sheet_h, item_w, item_h, bleed, gutter, margin, allow_rotation) ==
    items_layout(to_decimal(sheet_w), to_decimal(sheet_h), to_decimal(item_w),
                 to_decimal(item_h), to_decimal(bleed), to_decimal(gutter),
                 to_decimal(margin), allow_rotation).count

round_up_to_multiple_down(value, base) ==
    IF base <= 0 THEN value ELSE (value \div base) * base

(* _round_up_to_multiple *)
round_up_to_multiple(value, base) ==
    IF base <= 0 THEN value ELSE ((value + base - 1) \div base) * base

inner_pages_for_abs(rounded, cover_pages, cover_separate) ==
    LET inner0 == IF cover_separate THEN rounded - cover_pages ELSE rounded
    IN  IF inner0 < 0 THEN 0 - inner0 ELSE inner0

inner_pages_for_unclamped(rounded, cover_pages, cover_separate) ==
    IF cover_separate THEN rounded - cover_pages ELSE rounded

(* inner_pages of booklet_imposition: the rounded pages less the cover's
   when the cover is a separate run, never negative *)
inner_pages_for(rounded, cover_pages, cover_separate) ==
    LET inner0 == IF cover_separate THEN rounded - cover_pages ELSE rounded
    IN  IF inner0 < 0 THEN 0 ELSE inner0

(* `x or 0` for an optional integer *)
or0(x) ==
    IF x = None THEN 0 ELSE x[1]

(* truth value of an optional number: None and 0 are false *)
truthy(x) ==
    x # None /\ x[1] # 0

(* `a if a is not None else b` *)
if_not_none_default(a, b) == b

if_not_none(a, b) ==
    IF a # None THEN a ELSE b

(* booklet_imposition.  `a` holds the keyword arguments; the notes are kept
   as the set of the messages appended. *)
booklet_imposition(a) ==
    LET orig      == or0(a.total_pages)
        rounded   == round_up_to_multiple(orig, a.enforce_signature_multiple)
        n_round   == IF rounded # orig THEN {"rounded"} ELSE {}
        items_side == items_per_sheet(a.sheet_w_mm, a.sheet_h_mm, a.final_page_w_mm,
                                      a.final_page_h_mm, a.bleed_mm, a.gutter_mm,
                                      a.margin_mm, TRUE)
        ppp       == items_side * (IF a.duplex THEN 2 ELSE 1)
        cover_pages == IF a.cover_separate THEN 4 ELSE 0
        inner_pages == inner_pages_for(rounded, cover_pages, a.cover_separate)
        inner_sheets == IF inner_pages > 0 THEN ceil_div(inner_pages, ppp) ELSE 0
        has_cover == a.cover_separate /\ cover_pages > 0
        own_sheet == truthy(a.cover_sheet_w_mm) /\ truthy(a.cover_sheet_h_mm)
        cover_items_side ==
            items_per_sheet(a.cover_sheet_w_mm, a.cover_sheet_h_mm,
                            a.final_page_w_mm, a.final_page_h_mm,
                            if_not_none(a.cover_bleed_mm, a.bleed_mm),
                            if_not_none(a.cover_gutter_mm, a.gutter_mm),
                            if_not_none(a.cover_margin_mm, a.margin_mm), TRUE)
        cover_ppp == IF own_sheet
                     THEN cover_items_side * (IF a.duplex THEN 2 ELSE 1)
                     ELSE ppp
        cover_fits == cover_ppp > 0
        cover_sheets == IF has_cover /\ cover_fits
                        THEN ceil_div(cover_pages, cover_ppp) ELSE 0
        n_cover   == IF has_cover /\ ~cover_fits THEN {"cover_does_not_fit"} ELSE {}
    IN  IF ppp <= 0
        THEN [pages_original |-> orig, pages_rounded |-> rounded,
              pages_per_physical_sheet |-> ppp, pages_inner |-> None,
              cover_pages |-> None, inner_sheets |-> None, cover_sheets |-> None,
              total_physical_sheets |-> None,
              cover_pages_per_physical_sheet |-> None,
              notes |-> n_round \cup {"inner_does_not_fit"}]
        ELSE [pages_original |-> orig, pages_rounded |-> rounded,
              pages_per_physical_sheet |-> ppp, pages_inner |-> Some(inner_pages),
              cover_pages |-> Some(cover_pages), inner_sheets |-> Some(inner_sheets),
              cover_sheets |-> Some(cover_sheets),
              total_physical_sheets |-> Some(inner_sheets + cover_sheets),
              cover_pages_per_physical_sheet |->
                  IF has_cover THEN Some(cover_ppp) ELSE None,
              notes |-> n_round \cup n_cover]


----------------------------------------------------------------------------
(* costs.py.  Objects are read with getattr: an object is a record whose
   domain is the set of attributes it has.  Money and percentages are
   Decimals, held as integer multiples of 0.0001 (One = 1.0000). *)

One == 10000

Cent == 100

(* getattr(o, k, d) and dict.get(k, d) *)
get(o, k, d) ==
    IF k \in DOMAIN o THEN o[k] ELSE d

(* n / d (d > 0) rounded to an integer, ties away from zero: ROUND_HALF_UP *)
round_half_up(n, d) ==
    LET an == IF n < 0 THEN -n ELSE n
        q  == (2 * an + d) \div (2 * d)
    IN  IF n < 0 THEN -q ELSE q

(* n / d (d > 0) rounded to an integer, ties to the even neighbour:
   ROUND_HALF_EVEN, the rounding of the default decimal context *)
round_half_even(n, d) ==
    LET an == IF n < 0 THEN -n ELSE n
        fl == an \div d
        r2 == 2 * (an % d)
        q  == IF r2 > d \/ (r2 = d /\ fl % 2 = 1) THEN fl + 1 ELSE fl
    IN  IF n < 0 THEN -q ELSE q

(* x.quantize(Decimal("0.01"), rounding=ROUND_HALF_UP) *)
quantize2_half_up(x) ==
    round_half_up(x, Cent) * Cent

(* x.quantize(Decimal("0.01")) *)
quantize2(x) ==
    round_half_even(x, Cent) * Cent

(* _is_booklet *)
is_booklet(deliverable) ==
    get(deliverable, "saddle_stitched", FALSE) \/ truthy(get(deliverable, "total_pages", None))

(* A text is a sequence of one-character strings. *)
lower(t) ==
    [i \in 1..Len(t) |->
        CASE t[i] = "S" -> "s"
          [] t[i] = "D" -> "d"
          [] t[i] = "T" -> "t"
          [] OTHER -> t[i]]

contains(t, sub) ==
    \E i \in 1..(Len(t) - Len(sub) + 1) : SubSeq(t, i, i + Len(sub) - 1) = sub

get_sheet_sidedness_text_first(deliverable) ==
    LET duplex == get(deliverable, "duplex", None)
        inner  == get(deliverable, "inner_sidedness", None)
        sided  == IF inner = None THEN get(deliverable, "sidedness", None) ELSE inner
        t      == lower(sided)
    IN  IF sided # None
        THEN IF \/ contains(t, <<"d", "o", "u", "b", "l", "e">>)
                \/ contains(t, <<"d", "u", "p", "l", "e", "x">>)
                \/ contains(t, <<"t", "w", "o">>)
                \/ contains(t, <<"2">>)
             THEN "double" ELSE "single"
        ELSE IF duplex # None THEN (IF duplex[1] THEN "double" ELSE "single")
        ELSE IF is_booklet(deliverable) THEN "double"
        ELSE "single"

(* _get_sheet_sidedness *)
get_sheet_sidedness(deliverable) ==
    LET duplex == get(deliverable, "duplex", None)
        inner  == get(deliverable, "inner_sidedness", None)
        sided  == IF inner = None THEN get(deliverable, "sidedness", None) ELSE inner
        t      == lower(sided)
    IN  IF duplex # None THEN (IF duplex[1] THEN "double" ELSE "single")
        ELSE IF sided # None
        THEN IF \/ contains(t, <<"d", "o", "u", "b", "l", "e">>)
                \/ contains(t, <<"d", "u", "p", "l", "e", "x">>)
                \/ contains(t, <<"t", "w", "o">>)
                \/ contains(t, <<"2">>)
             THEN "double" ELSE "single"
        ELSE IF is_booklet(deliverable) THEN "double"
        ELSE "single"

(* qs.filter(...).first(): the first row of the ordered catalog among the
   rows `hits` that satisfy the filter, None when there is none *)
first_where(catalog, hits) ==
    IF hits = {} THEN None
    ELSE Some(catalog[CHOOSE i \in hits : \A j \in hits : i <= j])

auto_find_price_obj_paper_first(deliverable, catalog) ==
    LET existing == get(deliverable, "print_price", None)
        machine  == get(deliverable, "inner_machine", None)
        material == get(deliverable, "inner_material", None)
        both     == machine # None /\ material # None
        mat_size == IF both THEN get(material[1], "size", None) ELSE None
        by_size  == IF both /\ mat_size # None
                    THEN first_where(catalog, {i \in 1..Len(catalog) :
                                        /\ catalog[i].machine = machine[1].id
                                        /\ catalog[i].size = mat_size})
                    ELSE None
        pt_attr  == IF both THEN get(material[1], "paper_type", None) ELSE None
        paper_type == IF ~both THEN None
                      ELSE IF pt_attr # None THEN pt_attr
                      ELSE IF get(material[1], "name", <<>>) # <<>> THEN Some(material[1].id)
                      ELSE None
        by_paper == IF both /\ paper_type # None
                    THEN first_where(catalog, {i \in 1..Len(catalog) :
                                        /\ catalog[i].machine = machine[1].id
                                        /\ catalog[i].paper_type = paper_type[1]})
                    ELSE None
        by_machine == IF machine # None
                      THEN first_where(catalog, {i \in 1..Len(catalog) :
                                        catalog[i].machine = machine[1].id})
                      ELSE None
    IN  IF existing # None THEN existing
        ELSE IF by_paper # None THEN by_paper
        ELSE IF by_size # None THEN by_size
        ELSE by_machine

(* _auto_find_price_obj; `catalog` is DigitalPrintPrice.objects.all() in
   its order.  A material is matched on its primary key `id`, a size on
   the size object. *)
auto_find_price_obj(deliverable, catalog) ==
    LET existing == get(deliverable, "print_price", None)
        machine  == get(deliverable, "inner_machine", None)
        material == get(deliverable, "inner_material", None)
        both     == machine # None /\ material # None
        mat_size == IF both THEN get(material[1], "size", None) ELSE None
        by_size  == IF both /\ mat_size # None
                    THEN first_where(catalog, {i \in 1..Len(catalog) :
                                        /\ catalog[i].machine = machine[1].id
                                        /\ catalog[i].size = mat_size})
                    ELSE None
        pt_attr  == IF both THEN get(material[1], "paper_type", None) ELSE None
        paper_type == IF ~both THEN None
                      ELSE IF pt_attr # None THEN pt_attr
                      ELSE IF get(material[1], "name", <<>>) # <<>> THEN Some(material[1].id)
                      ELSE None
        by_paper == IF both /\ paper_type # None
                    THEN first_where(catalog, {i \in 1..Len(catalog) :
                                        /\ catalog[i].machine = machine[1].id
                                        /\ catalog[i].paper_type = paper_type[1]})
                    ELSE None
        by_machine == IF machine # None
                      THEN first_where(catalog, {i \in 1..Len(catalog) :
                                        catalog[i].machine = machine[1].id})
                      ELSE None
    IN  IF existing # None THEN existing
        ELSE IF by_size # None THEN by_size
        ELSE IF by_paper # None THEN by_paper
        ELSE by_machine

(* `v not in (None, "", 0)` *)
is_set(v) ==
    v # None /\ v # Some(0)

PriceKeys ==
    {"price_per_sheet", "single_side_price", "double_side_price", "rate_per_1000",
     "setup_cost", "makeready_cost", "waste_percent", "finishing_cost_per_sheet",
     "cover_price_per_sheet", "unit_price", "minimum_charge"}

(* The dictionary `vals` of _build_price_proxy_from: the deliverable's own
   field first, the price object's field when the deliverable's is missing,
   None or 0.  A key that is not in `vals` reads as None. *)
collect_vals(deliverable, price_obj) ==
    [k \in PriceKeys |->
        LET own == get(deliverable, k, None)
        IN  IF price_obj # None /\ ~is_set(own) /\ k \in DOMAIN price_obj[1]
            THEN price_obj[1][k]
            ELSE own]

base_price_per_sheet_single_only(vals, sided) ==
    IF is_set(vals["price_per_sheet"]) THEN vals["price_per_sheet"]
    ELSE IF is_set(vals["single_side_price"]) THEN vals["single_side_price"]
    ELSE IF is_set(vals["double_side_price"]) THEN vals["double_side_price"]
    ELSE None

(* The choice of base_pps in _build_price_proxy_from, before the
   rate_per_1000 fallback *)
base_price_per_sheet(vals, sided) ==
    IF is_set(vals["price_per_sheet"]) THEN vals["price_per_sheet"]
    ELSE IF sided = "double"
    THEN IF is_set(vals["double_side_price"]) THEN vals["double_side_price"]
         ELSE IF is_set(vals["single_side_price"]) THEN vals["single_side_price"]
         ELSE None
    ELSE IF is_set(vals["single_side_price"]) THEN vals["single_side_price"]
         ELSE IF is_set(vals["double_side_price"]) THEN vals["double_side_price"]
         ELSE None

(* (rate_per_1000 / 1000).quantize(Decimal("0.0001")) *)
rate_to_price(rate) ==
    round_half_even(rate, 1000)

(* _build_price_proxy_from *)
build_price_proxy_from(deliverable, price_obj) ==
    LET vals  == collect_vals(deliverable, price_obj)
        sided == get_sheet_sidedness(deliverable)
        base0 == base_price_per_sheet(vals, sided)
        base  == IF (base0 = None \/ base0 = Some(0)) /\ is_set(vals["rate_per_1000"])
                 THEN Some(rate_to_price(vals["rate_per_1000"][1]))
                 ELSE base0
    IN  [price_per_sheet |-> or0(base),
         rate_per_1000 |-> or0(vals["rate_per_1000"]),
         setup_cost |-> or0(vals["setup_cost"]),
         makeready_cost |-> or0(vals["makeready_cost"]),
         waste_percent |-> or0(vals["waste_percent"]),
         finishing_cost_per_sheet |-> or0(vals["finishing_cost_per_sheet"]),
         cover_price_per_sheet |-> or0(vals["cover_price_per_sheet"]),
         unit_price |-> vals["unit_price"],
         minimum_charge |-> or0(vals["minimum_charge"])]

(* width_mm / height_mm of an optional size object *)
width_of(size) ==
    IF size # None THEN Some(size[1].width_mm) ELSE None

height_of(size) ==
    IF size # None THEN Some(size[1].height_mm) ELSE None

(* The production sheet of compute_sheets_for_deliverable: the price
   object's size, else the material's size, else the machine's first
   supported size. *)
production_sheet(deliverable, price_obj) ==
    LET psize    == IF price_obj # None THEN get(price_obj[1], "size", None) ELSE None
        material == get(deliverable, "inner_material", None)
        msize    == IF material # None THEN get(material[1], "size", None) ELSE None
        machine  == get(deliverable, "inner_machine", None)
        ss       == IF machine # None THEN get(machine[1], "supported_sizes", <<>>) ELSE <<>>
    IN  IF psize # None THEN psize
        ELSE IF msize # None THEN msize
        ELSE IF Len(ss) > 0 THEN Some(ss[1])
        ELSE None

(* the keyword arguments compute_sheets_for_deliverable passes to
   booklet_imposition *)
booklet_args(deliverable, price_obj, sheet) ==
    LET final_size == get(deliverable, "size", None)
        pcover     == IF price_obj # None THEN get(price_obj[1], "cover_size", None) ELSE None
        dcover     == get(deliverable, "cover_sheet_size", None)
        cover_size == IF dcover # None THEN dcover ELSE pcover
    IN  [total_pages |-> get(deliverable, "total_pages", None),
         final_page_w_mm |-> width_of(final_size),
         final_page_h_mm |-> height_of(final_size),
         sheet_w_mm |-> width_of(sheet),
         sheet_h_mm |-> height_of(sheet),
         bleed_mm |-> get(deliverable, "bleed_mm", Some(3)),
         gutter_mm |-> get(deliverable, "gutter_mm", Some(5)),
         margin_mm |-> get(deliverable, "gripper_mm", Some(10)),
         duplex |-> TRUE,
         enforce_signature_multiple |-> get(deliverable, "signature_multiple", 4),
         cover_separate |-> get(deliverable, "cover_separate", TRUE),
         cover_sheet_w_mm |-> width_of(cover_size),
         cover_sheet_h_mm |-> height_of(cover_size),
         cover_bleed_mm |-> get(deliverable, "cover_bleed_mm", None),
         cover_gutter_mm |-> get(deliverable, "cover_gutter_mm", None),
         cover_margin_mm |-> get(deliverable, "cover_gripper_mm", None)]

(* compute_sheets_for_deliverable.  The resolved price object, the
   production sheet and the imposition are each computed once and bound
   as values, as the code's local variables are. *)
compute_sheets_for_deliverable(deliverable, price_obj_arg, catalog) ==
    LET qty        == get(deliverable, "quantity", None)
        final_size == get(deliverable, "size", None)
        is_book    == is_booklet(deliverable)
        total_pages == or0(get(deliverable, "total_pages", None))
        booklet(imposition) ==
            LET b_inner == or0(imposition.inner_sheets)
                b_cover == or0(imposition.cover_sheets)
                b_total == IF or0(imposition.total_physical_sheets) # 0
                           THEN or0(imposition.total_physical_sheets)
                           ELSE b_inner + b_cover
            IN  [qty |-> qty, is_booklet |-> is_book, imposition |-> imposition,
                 pages_per_physical_sheet |-> imposition.pages_per_physical_sheet,
                 inner_sheets |-> b_inner, cover_sheets |-> b_cover,
                 total_physical_sheets |-> b_total]
        flat(sheet, items) ==
            LET sheets == sheets_needed(or0(qty), items)
            IN  IF qty = None
                THEN [qty |-> qty, is_booklet |-> is_book, items_per_sheet |-> items,
                      inner_sheets |-> 0, cover_sheets |-> 0,
                      total_physical_sheets |-> 0,
                      imposition |-> [items_per_sheet |-> items]]
                ELSE [qty |-> qty, is_booklet |-> is_book, items_per_sheet |-> items,
                      inner_sheets |-> sheets, cover_sheets |-> 0,
                      total_physical_sheets |-> sheets,
                      imposition |-> [items_per_sheet |-> items]]
        body(price_obj, sheet) ==
            IF is_book /\ total_pages <= 0
            THEN [pages_per_physical_sheet |-> None, inner_sheets |-> 0,
                  cover_sheets |-> 0, total_physical_sheets |-> 0, imposition |-> <<>>,
                  warnings |-> <<"booklet detected but total_pages missing or zero">>]
            ELSE IF is_book
            THEN CHOOSE r \in {booklet(imposition) :
                                 imposition \in {booklet_imposition(a) :
                                     a \in {booklet_args(deliverable, price_obj, sheet)}}} : TRUE
            ELSE IF sheet = None
            THEN [items_per_sheet |-> 0, inner_sheets |-> 0, cover_sheets |-> 0,
                  total_physical_sheets |-> 0, imposition |-> <<>>,
                  warnings |-> <<"could not resolve production sheet size">>]
            ELSE CHOOSE r \in {flat(sheet, items) :
                                 items \in {items_per_sheet(
                                     width_of(sheet), height_of(sheet),
                                     width_of(final_size), height_of(final_size),
                                     get(deliverable, "bleed_mm", Some(3)),
                                     get(deliverable, "gutter_mm", Some(5)),
                                     get(deliverable, "gripper_mm", Some(10)), TRUE)}} : TRUE
        resolved(price_obj) ==
            CHOOSE r \in {body(price_obj, sheet) :
                            sheet \in {production_sheet(deliverable, price_obj)}} : TRUE
    IN  CHOOSE r \in {resolved(price_obj) :
                        price_obj \in {IF price_obj_arg = None
                                       THEN auto_find_price_obj(deliverable, catalog)
                                       ELSE price_obj_arg}} : TRUE

RECURSIVE extras_sum(_, _, _)
(* the loop over extras.items(); an entry is <<suffix of the key, value>> *)
extras_sum(extras, sc, i) ==
    IF i > Len(extras) THEN 0
    ELSE (IF extras[i][1] = "_per_sheet" THEN sc * extras[i][2] ELSE extras[i][2])
         + extras_sum(extras, sc, i + 1)

waste_sheets_for_truncated(sc, waste_percent) ==
    IF waste_percent > 0 THEN (sc * waste_percent) \div (100 * One) ELSE 0

(* waste_sheets of compute_print_run_cost *)
waste_sheets_for(sc, waste_percent) ==
    IF waste_percent > 0
    THEN round_half_up(sc * waste_percent, 100 * One)
    ELSE 0

run_total_no_waste(running_cost, waste_cost, setup_cost, makeready_cost, finishing_cost, extras_cost) ==
    quantize2_half_up(running_cost + setup_cost + makeready_cost
                      + finishing_cost + extras_cost)

(* total_run of compute_print_run_cost *)
run_total(running_cost, waste_cost, setup_cost, makeready_cost, finishing_cost, extras_cost) ==
    quantize2_half_up(running_cost + waste_cost + setup_cost + makeready_cost
                      + finishing_cost + extras_cost)

(* compute_print_run_cost *)
compute_print_run_cost(sheet_count, price_proxy, extras) ==
    LET sc   == sheet_count
        pps0 == price_proxy.price_per_sheet
        rate == price_proxy.rate_per_1000
        setup_cost     == price_proxy.setup_cost
        makeready_cost == price_proxy.makeready_cost
        waste_percent  == price_proxy.waste_percent
        finishing      == price_proxy.finishing_cost_per_sheet
        pps  == IF pps0 = 0 /\ rate > 0 THEN rate_to_price(rate) ELSE pps0
        warnings == IF pps = 0 THEN <<"price_per_sheet is zero">> ELSE <<>>
        waste_sheets == waste_sheets_for(sc, waste_percent)
        waste_cost     == quantize2_half_up(waste_sheets * pps)
        running_cost   == quantize2_half_up(sc * pps)
        finishing_cost == quantize2_half_up(sc * finishing)
        extras_cost    == extras_sum(extras, sc, 1)
        total_run      == run_total(running_cost, waste_cost, setup_cost,
                                    makeready_cost, finishing_cost, extras_cost)
    IN  IF sc <= 0
        THEN [sheet_count |-> 0, price_per_sheet |-> 0, setup_cost |-> 0,
              makeready_cost |-> 0, waste_sheets |-> 0, waste_cost |-> 0,
              running_cost |-> 0, finishing_cost |-> 0, extras_cost |-> 0,
              total_run_cost |-> 0, warnings |-> <<"zero sheet_count">>]
        ELSE [sheet_count |-> sc, price_per_sheet |-> quantize2_half_up(pps),
              setup_cost |-> quantize2(setup_cost),
              makeready_cost |-> quantize2(makeready_cost),
              waste_percent |-> waste_percent, waste_sheets |-> waste_sheets,
              waste_cost |-> waste_cost, running_cost |-> running_cost,
              finishing_cost |-> finishing_cost,
              extras_cost |-> quantize2(extras_cost),
              total_run_cost |-> total_run, warnings |-> warnings]

apply_minimum_charge_never(total_cost, min_charge) ==
    [total_cost |-> total_cost, applied |-> FALSE]

(* "Respect minimum charge" in compute_total_cost *)
apply_minimum_charge(total_cost, min_charge) ==
    IF min_charge > 0 /\ total_cost < min_charge
    THEN [total_cost |-> min_charge, applied |-> TRUE]
    ELSE [total_cost |-> total_cost, applied |-> FALSE]

(* compute_total_cost.  The result's "runs"."cover" is None when there is
   no cover run.  Each local variable of the code is computed once and
   bound as a value. *)
compute_total_cost(deliverable, price_obj_arg, cover_price_obj, extras, catalog) ==
    LET totals(sheets, price_proxy, inner_run, cover_run) ==
            LET run_warnings == inner_run.warnings
                                \o (IF cover_run # None THEN cover_run[1].warnings
                                    ELSE <<>>)
                sum     == inner_run.total_run_cost
                           + (IF cover_run # None THEN cover_run[1].total_run_cost ELSE 0)
                floored == apply_minimum_charge(sum, price_proxy.minimum_charge)
            IN  [sheets |-> [inner_sheets |-> sheets.inner_sheets,
                             cover_sheets |-> sheets.cover_sheets,
                             total_physical_sheets |->
                                 sheets.inner_sheets + sheets.cover_sheets,
                             imposition |-> sheets.imposition],
                 runs |-> [inner |-> inner_run, cover |-> cover_run],
                 total_cost |-> quantize2_half_up(floored.total_cost),
                 warnings |-> IF floored.applied
                              THEN Append(run_warnings, "Applied minimum charge")
                              ELSE run_warnings]
        runs(sheets, price_proxy, cover_proxy) ==
            CHOOSE r \in {totals(sheets, price_proxy, inner_run, cover_run) :
                inner_run \in {compute_print_run_cost(sheets.inner_sheets,
                                                      price_proxy, extras)},
                cover_run \in {IF sheets.cover_sheets > 0
                               THEN Some(compute_print_run_cost(sheets.cover_sheets,
                                                                cover_proxy, extras))
                               ELSE None}} : TRUE
        proxies(sheets, proxy0, cover0) ==
            LET imposition == sheets.imposition
                ppp        == get(imposition, "pages_per_physical_sheet", 0)
                items_on_sheet == IF ppp # 0 THEN ppp
                                  ELSE get(imposition, "items_per_sheet", 0)
                price_proxy ==
                    IF proxy0.price_per_sheet = 0 /\ proxy0.unit_price # None
                       /\ items_on_sheet > 0
                    THEN [proxy0 EXCEPT !.price_per_sheet =
                                quantize2(proxy0.unit_price[1] * items_on_sheet)]
                    ELSE proxy0
                cover_proxy ==
                    IF cover0.price_per_sheet = 0 /\ price_proxy.price_per_sheet > 0
                    THEN [cover0 EXCEPT !.price_per_sheet = price_proxy.price_per_sheet]
                    ELSE cover0
            IN  CHOOSE r \in {runs(sheets, pp, cp) :
                                pp \in {price_proxy}, cp \in {cover_proxy}} : TRUE
        resolved(price_obj) ==
            CHOOSE r \in {proxies(sheets, proxy0, cover0) :
                sheets \in {compute_sheets_for_deliverable(deliverable, price_obj,
                                                           catalog)},
                proxy0 \in {build_price_proxy_from(deliverable, price_obj)},
                cover0 \in {build_price_proxy_from(deliverable,
                                IF cover_price_obj # None THEN cover_price_obj
                                ELSE price_obj)}} : TRUE
    IN  CHOOSE r \in {resolved(price_obj) :
                        price_obj \in {IF price_obj_arg = None
                                       THEN auto_find_price_obj(deliverable, catalog)
                                       ELSE price_obj_arg}} : TRUE

----------------------------------------------------------------------------
(* Calls of items_layout *)

ScenarioA ==
    [fn |-> "items_layout", sheet_w |-> 450, sheet_h |-> 320,
     item_w |-> 90, item_h |-> 50, bleed |-> 2, gutter |-> 2, margin |-> 5,
     allow_rotation |-> FALSE]

LayoutCalls ==
    [fn : {"items_layout"}, sheet_w : 0..MaxSheet, sheet_h : 0..MaxSheet,
     item_w : 0..MaxItem, item_h : 0..MaxItem, bleed : 0..MaxBleed,
     gutter : 0..MaxGutter, margin : 0..MaxMargin, allow_rotation : BOOLEAN]
    \cup {ScenarioA, [ScenarioA EXCEPT !.allow_rotation = TRUE]}

(* the defaults of the keyword arguments, as the signatures give them *)
items_layout_defaults == [bleed |-> 3, gutter |-> 5, margin |-> 10]

items_per_sheet_defaults == [bleed |-> 3, gutter |-> 1, margin |-> 1]

(* an argument, or the default when the caller leaves it out *)
or_default(arg, default) ==
    IF arg = None THEN Some(default) ELSE arg

(* Calls of items_per_sheet; bleed, gutter and margin may be left out *)
PerSheetCalls ==
    [fn : {"items_per_sheet"}, sheet_w : {30, 45}, sheet_h : {30, 45},
     item_w : {5, 9}, item_h : {5, 9}, bleed : {None, Some(0), Some(3)},
     gutter : {None, Some(5)}, margin : {None, Some(10)}]

InitLayout ==
    /\ pc = "ready"
    /\ call \in LayoutCalls \cup PerSheetCalls
    /\ ret = None

DoItemsPerSheet ==
    /\ pc = "ready"
    /\ call.fn = "items_per_sheet"
    /\ ret' = items_per_sheet(Some(call.sheet_w), Some(call.sheet_h),
                              Some(call.item_w), Some(call.item_h),
                              or_default(call.bleed, items_per_sheet_defaults.bleed),
                              or_default(call.gutter, items_per_sheet_defaults.gutter),
                              or_default(call.margin, items_per_sheet_defaults.margin),
                              TRUE)
    /\ pc' = "done"
    /\ UNCHANGED call

DoItemsLayout ==
    /\ pc = "ready"
    /\ call.fn = "items_layout"
    /\ ret' = items_layout(to_decimal(Some(call.sheet_w)), to_decimal(Some(call.sheet_h)),
                           to_decimal(Some(call.item_w)), to_decimal(Some(call.item_h)),
                           to_decimal(Some(call.bleed)), to_decimal(Some(call.gutter)),
                           to_decimal(Some(call.margin)), call.allow_rotation)
    /\ pc' = "done"
    /\ UNCHANGED call

NextLayout ==
    \/ DoItemsLayout
    \/ DoItemsPerSheet

SpecLayout == InitLayout /\ [][NextLayout]_vars

(* Calls of sheets_needed *)

SheetsCalls ==
    [fn : {"sheets_needed"}, quantity : (-2..MaxQty) \cup {1000},
     items_per_sheet : (-2..MaxIps) \cup {24}]

InitSheets ==
    /\ pc = "ready"
    /\ call \in SheetsCalls
    /\ ret = None

DoSheetsNeeded ==
    /\ pc = "ready"
    /\ call.fn = "sheets_needed"
    /\ ret' = sheets_needed(call.quantity, call.items_per_sheet)
    /\ pc' = "done"
    /\ UNCHANGED call

NextSheets == DoSheetsNeeded

SpecSheets == InitSheets /\ [][NextSheets]_vars

(* Calls of booklet_imposition *)

PageSizes == {<<1, 1>>, <<2, 3>>, <<9, 9>>}

BookSheets == {<<2, 2>>, <<4, 6>>, <<5, 7>>}

CoverSheets == {<<None, None>>, <<Some(0), Some(6)>>, <<Some(2), Some(3)>>, <<Some(6), Some(9)>>}

BookletArgs ==
    {[total_pages |-> Some(tp), final_page_w_mm |-> Some(ps[1]),
      final_page_h_mm |-> Some(ps[2]), sheet_w_mm |-> Some(sh[1]),
      sheet_h_mm |-> Some(sh[2]), bleed_mm |-> Some(0), gutter_mm |-> Some(0),
      margin_mm |-> Some(m), duplex |-> dx, enforce_signature_multiple |-> sig,
      cover_separate |-> cs, cover_sheet_w_mm |-> cv[1], cover_sheet_h_mm |-> cv[2],
      cover_bleed_mm |-> None, cover_gutter_mm |-> cg, cover_margin_mm |-> cm] :
        tp \in (0..MaxPages) \cup {30}, ps \in PageSizes, sh \in BookSheets,
        m \in 0..MaxMargin, dx \in BOOLEAN, sig \in 0..MaxSig, cs \in BOOLEAN,
        cv \in CoverSheets, cg \in {None, Some(1)}, cm \in {None, Some(0), Some(1)}}

InitBooklet ==
    /\ pc = "ready"
    /\ call \in [fn : {"booklet_imposition"}, a : BookletArgs]
    /\ ret = None

DoBookletImposition ==
    /\ pc = "ready"
    /\ call.fn = "booklet_imposition"
    /\ ret' = booklet_imposition(call.a)
    /\ pc' = "done"
    /\ UNCHANGED call

NextBooklet == DoBookletImposition

SpecBooklet == InitBooklet /\ [][NextBooklet]_vars

(* Calls of _auto_find_price_obj and _build_price_proxy_from *)

(* an attribute that an object may lack: <<>> is "no such attribute",
   <<v>> the attribute with value v *)
attr(k, p) ==
    IF p = <<>> THEN <<>> ELSE k :> p[1]

SizeA == [name |-> "A", width_mm |-> 4, height_mm |-> 6]

SizeB == [name |-> "B", width_mm |-> 5, height_mm |-> 7]

Machine1 == [id |-> "m1", supported_sizes |-> <<>>]

Rules ==
    [machine : {"m1", "m2"}, paper_type : {"p1", "p2"},
     size : {None, Some(SizeA), Some(SizeB)},
     single_side_price : {Some(5 * One)}, double_side_price : {Some(8 * One)},
     minimum_charge : {Some(0)}]

NoDuplicateKey(cat) ==
    \A i, j \in 1..Len(cat) :
        (cat[i].machine = cat[j].machine /\ cat[i].paper_type = cat[j].paper_type) => i = j

Catalogs ==
    {cat \in UNION {[1..n -> Rules] : n \in 0..MaxRules} : NoDuplicateKey(cat)}

Materials ==
    {None}
    \cup {Some([id |-> i, name |-> n] @@ attr("size", sz)) :
            i \in {"p1", "p2"}, n \in {<<>>, <<"g">>},
            sz \in {<<>>, <<None>>, <<Some(SizeA)>>}}
    \cup {Some([id |-> "w1", paper_type |-> Some("p1")] @@ attr("size", sz)) :
            sz \in {<<None>>, <<Some(SizeA)>>, <<Some(SizeB)>>}}

ExplicitPrice ==
    [machine |-> "m2", paper_type |-> "p2", size |-> None,
     single_side_price |-> Some(3 * One), double_side_price |-> Some(4 * One),
     minimum_charge |-> Some(0)]

FindDeliverables ==
    {[inner_machine |-> m, inner_material |-> mat] @@ attr("print_price", pp) :
        m \in {None, Some(Machine1)}, mat \in Materials,
        pp \in {<<>>, <<None>>, <<Some(ExplicitPrice)>>}}

AutoFindCalls ==
    [fn : {"_auto_find_price_obj"}, deliverable : FindDeliverables, catalog : Catalogs]

TextS1 == <<"S", "1">>

TextS2 == <<"S", "2">>

OwnPrices == {<<>>, <<None>>, <<Some(0)>>, <<Some(2 * One)>>}

ProxyDeliverables ==
    {attr("duplex", dx) @@ attr("sidedness", sd) @@ attr("total_pages", tp)
       @@ attr("price_per_sheet", pps) @@ attr("single_side_price", ssp)
       @@ attr("double_side_price", dsp) @@ attr("rate_per_1000", rate) :
        dx \in {<<>>, <<Some(TRUE)>>, <<Some(FALSE)>>},
        sd \in {<<>>, <<TextS1>>, <<TextS2>>},
        tp \in {<<>>, <<Some(8)>>},
        pps \in {<<>>, <<Some(0)>>, <<Some(7 * One)>>},
        ssp \in OwnPrices, dsp \in OwnPrices,
        rate \in {<<>>, <<Some(1500 * One + 5)>>}}

ProxyRules ==
    {None}
    \cup {Some([machine |-> "m1", paper_type |-> "p1", size |-> None,
                single_side_price |-> Some(s1), double_side_price |-> Some(s2),
                minimum_charge |-> Some(0)]) :
            s1 \in {0, 5 * One}, s2 \in {0, 8 * One}}

ProxyCalls ==
    [fn : {"_build_price_proxy_from"}, deliverable : ProxyDeliverables,
     price_obj : ProxyRules]

TextDuplex == <<"D", "u", "p", "l", "e", "x">>

TextTwo == <<"t", "w", "o", "-", "s", "i", "d", "e", "d">>

TextDouble == <<"d", "o", "u", "b", "l", "e">>

TextSingle == <<"s", "i", "n", "g", "l", "e">>

(* deliverables as _get_sheet_sidedness reads them: the duplex flag, the
   two sidedness texts and the two booklet marks, each present or not *)
SidednessDeliverables ==
    {attr("duplex", dx) @@ attr("inner_sidedness", isd) @@ attr("sidedness", sd)
       @@ attr("saddle_stitched", ss) @@ attr("total_pages", tp) :
        dx \in {<<>>, <<None>>, <<Some(TRUE)>>, <<Some(FALSE)>>},
        isd \in {<<>>, <<None>>, <<TextS1>>, <<TextS2>>},
        sd \in {<<>>, <<TextS1>>, <<TextS2>>, <<TextDuplex>>, <<TextTwo>>,
                <<TextDouble>>, <<TextSingle>>},
        ss \in {<<>>, <<TRUE>>, <<FALSE>>},
        tp \in {<<>>, <<None>>, <<Some(0)>>, <<Some(8)>>}}

SidednessCalls ==
    [fn : {"_get_sheet_sidedness"}, deliverable : SidednessDeliverables]

InitPrice ==
    /\ pc = "ready"
    /\ call \in AutoFindCalls \cup ProxyCalls \cup SidednessCalls
    /\ ret = None

DoGetSheetSidedness ==
    /\ pc = "ready"
    /\ call.fn = "_get_sheet_sidedness"
    /\ ret' = get_sheet_sidedness(call.deliverable)
    /\ pc' = "done"
    /\ UNCHANGED call

DoAutoFindPriceObj ==
    /\ pc = "ready"
    /\ call.fn = "_auto_find_price_obj"
    /\ ret' = auto_find_price_obj(call.deliverable, call.catalog)
    /\ pc' = "done"
    /\ UNCHANGED call

DoBuildPriceProxy ==
    /\ pc = "ready"
    /\ call.fn = "_build_price_proxy_from"
    /\ ret' = build_price_proxy_from(call.deliverable, call.price_obj)
    /\ pc' = "done"
    /\ UNCHANGED call

NextPrice ==
    \/ DoAutoFindPriceObj
    \/ DoBuildPriceProxy
    \/ DoGetSheetSidedness

SpecPrice == InitPrice /\ [][NextPrice]_vars

(* Calls of compute_sheets_for_deliverable, compute_print_run_cost and
   compute_total_cost *)

Machine2 == [id |-> "m2", supported_sizes |-> <<SizeB>>]

Page == [name |-> "page", width_mm |-> 2, height_mm |-> 3]

Poster == [name |-> "poster", width_mm |-> 9, height_mm |-> 9]

Paper(sz) == [id |-> "p1", name |-> <<"g">>] @@ attr("size", sz)

(* what is printed: a flat item or a booklet, its quantity and its sheet *)
Shapes ==
    {[size |-> Some(fs), inner_machine |-> Some(m), inner_material |-> Some(Paper(sz)),
      bleed_mm |-> Some(0), gutter_mm |-> Some(0), gripper_mm |-> Some(0)]
       @@ attr("quantity", q) @@ attr("total_pages", tp)
       @@ attr("saddle_stitched", ss) @@ attr("cover_separate", cs) :
        fs \in {Page, Poster}, m \in {Machine1, Machine2},
        sz \in {<<None>>, <<Some(SizeA)>>},
        q \in {<<>>} \cup {<<Some(n)>> : n \in 0..MaxCopies},
        tp \in {<<>>, <<Some(3)>>, <<Some(8)>>, <<Some(30)>>},
        ss \in {<<>>, <<TRUE>>}, cs \in {<<>>, <<FALSE>>}}

FewShapes ==
    {sh \in Shapes :
        /\ sh.size = Some(Page)
        /\ sh.inner_machine = Some(Machine1)
        /\ sh.inner_material = Some(Paper(<<Some(SizeA)>>))
        /\ "quantity" \in DOMAIN sh
        /\ "saddle_stitched" \notin DOMAIN sh
        /\ get(sh, "total_pages", Some(3)) # Some(30)}

(* the deliverable's own price fields *)
OwnPricing ==
    {attr("price_per_sheet", pps) @@ attr("unit_price", up) @@ attr("setup_cost", su)
       @@ attr("minimum_charge", mc) :
        pps \in {<<>>, <<Some(2 * One)>>},
        up \in {<<>>, <<Some(3350)>>},
        su \in {<<>>, <<Some(12 * One)>>},
        mc \in {<<>>, <<Some(10 * One)>>, <<Some(3 * One + 50)>>}}

RuleP1 ==
    [machine |-> "m1", paper_type |-> "p1", size |-> Some(SizeA),
     single_side_price |-> Some(5 * One), double_side_price |-> Some(8 * One),
     minimum_charge |-> Some(0)]

RuleP1Min ==
    [RuleP1 EXCEPT !.minimum_charge = Some(20 * One)]

RuleCover ==
    [machine |-> "m1", paper_type |-> "p2", size |-> None,
     single_side_price |-> Some(6 * One), double_side_price |-> Some(9 * One),
     minimum_charge |-> Some(40 * One)]

SomeExtras ==
    <<<<"_per_sheet", 1000>>, <<"_flat", One>>, <<"", 5000>>>>

TotalCostCalls ==
    [fn : {"compute_total_cost"}, deliverable : Shapes, price_obj : {None, Some(RuleP1)},
     cover_price_obj : {None}, extras : {<<>>}, catalog : {<<>>, <<RuleP1Min>>}]
    \cup
    {[fn |-> "compute_total_cost", deliverable |-> sh @@ own, price_obj |-> po,
      cover_price_obj |-> cpo, extras |-> ex, catalog |-> <<>>] :
        sh \in FewShapes, own \in OwnPricing, po \in {None, Some(RuleP1), Some(RuleP1Min)},
        cpo \in {None, Some(RuleCover)}, ex \in {<<>>, SomeExtras}}

(* a paper type no price rule is written for, and a rule that prices
   one side only *)
OtherPaper == [id |-> "p2", name |-> <<"g">>]

RuleSingleOnly ==
    [RuleP1 EXCEPT !.double_side_price = Some(0)]

(* calls whose price is resolved from the catalog by the machine alone, or
   from a rule that lacks the requested side's price *)
FallbackCalls ==
    {[fn |-> "compute_total_cost",
      deliverable |-> [sh EXCEPT !.inner_material = Some(mat)],
      price_obj |-> po, cover_price_obj |-> None, extras |-> <<>>, catalog |-> cat] :
        sh \in FewShapes, mat \in {Paper(<<Some(SizeA)>>), OtherPaper},
        po \in {None, Some(RuleSingleOnly)}, cat \in {<<RuleP1>>, <<RuleSingleOnly>>}}

(* booklets that say how they are printed: a duplex flag, a sidedness text *)
SidedBookletCalls ==
    {[fn |-> "compute_total_cost",
      deliverable |-> sh @@ attr("duplex", dx) @@ attr("sidedness", sd),
      price_obj |-> Some(RuleP1), cover_price_obj |-> None, extras |-> <<>>,
      catalog |-> <<>>] :
        sh \in {b \in FewShapes : "total_pages" \in DOMAIN b},
        dx \in {<<>>, <<Some(TRUE)>>, <<Some(FALSE)>>},
        sd \in {<<>>, <<TextS1>>, <<TextS2>>}}

SheetsForCalls ==
    [fn : {"compute_sheets_for_deliverable"}, deliverable : Shapes,
     price_obj : {None, Some(RuleP1)}, catalog : {<<>>, <<RuleP1Min>>}]

RunProxies ==
    [price_per_sheet : {0, 2 * One, 3350}, rate_per_1000 : {0, 1500 * One + 5},
     setup_cost : {0, 12 * One + 50}, makeready_cost : {0, One},
     waste_percent : {0, 5 * One, 10 * One},
     finishing_cost_per_sheet : {0, 2500}, cover_price_per_sheet : {0},
     unit_price : {None}, minimum_charge : {0}]

RunCostCalls ==
    [fn : {"compute_print_run_cost"}, sheet_count : 0..MaxSheetCount,
     price_proxy : RunProxies, extras : {<<>>, SomeExtras}]

InitCost ==
    /\ pc = "ready"
    /\ call \in TotalCostCalls \cup FallbackCalls \cup SidedBookletCalls
                \cup SheetsForCalls \cup RunCostCalls
    /\ ret = None

DoComputeSheetsForDeliverable ==
    /\ pc = "ready"
    /\ call.fn = "compute_sheets_for_deliverable"
    /\ ret' = compute_sheets_for_deliverable(call.deliverable, call.price_obj, call.catalog)
    /\ pc' = "done"
    /\ UNCHANGED call

DoComputePrintRunCost ==
    /\ pc = "ready"
    /\ call.fn = "compute_print_run_cost"
    /\ ret' = compute_print_run_cost(call.sheet_count, call.price_proxy, call.extras)
    /\ pc' = "done"
    /\ UNCHANGED call

DoComputeTotalCost ==
    /\ pc = "ready"
    /\ call.fn = "compute_total_cost"
    /\ ret' = compute_total_cost(call.deliverable, call.price_obj, call.cover_price_obj,
                                 call.extras, call.catalog)
    /\ pc' = "done"
    /\ UNCHANGED call

NextCost ==
    \/ DoComputeSheetsForDeliverable
    \/ DoComputePrintRunCost
    \/ DoComputeTotalCost

SpecCost == InitCost /\ [][NextCost]_vars

----------------------------------------------------------------------------
(* Helpers of the properties *)

LayoutDone == pc = "done" /\ call.fn = "items_layout"

EffW == call.item_w + 2 * call.bleed

EffH == call.item_h + 2 * call.bleed

AvailW == call.sheet_w - 2 * call.margin

AvailH == call.sheet_h - 2 * call.margin

(* floor(n / d) for n >= 0, d > 0, as the largest k with k * d <= n *)
FloorOf(n, d) ==
    CHOOSE k \in 0..n : k * d <= n /\ (k + 1) * d > n

(* ceil(n / d) for n >= 0, d > 0, as the least k with k * d >= n *)
CeilOf(n, d) ==
    CHOOSE k \in 0..n : k * d >= n /\ (k = 0 \/ (k - 1) * d < n)

Placeable == AvailW > 0 /\ AvailH > 0 /\ EffW > 0 /\ EffH > 0

UnrotCols == FloorOf(AvailW + call.gutter, EffW + call.gutter)

UnrotRows == FloorOf(AvailH + call.gutter, EffH + call.gutter)

RotCols == FloorOf(AvailW + call.gutter, EffH + call.gutter)

RotRows == FloorOf(AvailH + call.gutter, EffW + call.gutter)

----------------------------------------------------------------------------
(* C1: without rotation, whenever the available area and the effective item
   are positive, items_layout returns cols = floor((sheet_w - 2 margin +
   gutter) / (item_w + 2 bleed + gutter)), rows likewise on the height, and
   count = cols * rows; scenario A (450x320, 90x50, bleed 2, gutter 2,
   margin 5) gives 4 columns x 5 rows = 20 items. *)
C1_UnrotatedGrid ==
    (LayoutDone /\ ~call.allow_rotation) =>
        /\ Placeable =>
              /\ ret.cols = UnrotCols
              /\ ret.rows = UnrotRows
              /\ ret.count = ret.cols * ret.rows
        /\ call = ScenarioA => (ret.cols = 4 /\ ret.rows = 5 /\ ret.count = 20)

C1_Witness ==
    /\ LayoutDone
    /\ call = ScenarioA
    /\ ret.count = 20

(* C2: with rotation allowed, items_layout returns the rotated layout only
   when its count is strictly greater and the unrotated layout on a tie; its
   count is at least the unrotated count, count = cols * rows >= 0, and
   'rotated' is true only when the swapped layout was chosen. *)
C2_RotationPicksBest ==
    (LayoutDone /\ call.allow_rotation) =>
        /\ ret.count = ret.cols * ret.rows
        /\ ret.count >= 0
        /\ Placeable =>
              LET c1 == UnrotCols * UnrotRows
                  c2 == RotCols * RotRows
              IN  /\ ret.count >= c1
                  /\ ret.count >= c2
                  /\ ret.rotated <=> (c2 > c1)
                  /\ ret.rotated =>
                        /\ ret.cols = RotCols /\ ret.rows = RotRows
                        /\ ret.effective_item_w_mm = EffH
                        /\ ret.effective_item_h_mm = EffW
                  /\ ~ret.rotated =>
                        /\ ret.cols = UnrotCols /\ ret.rows = UnrotRows
                        /\ ret.effective_item_w_mm = EffW
                        /\ ret.effective_item_h_mm = EffH
        /\ ~Placeable => (ret.count = 0 /\ ~ret.rotated)

C2_Witness ==
    /\ LayoutDone
    /\ call.allow_rotation
    /\ Placeable
    /\ ret.rotated
    /\ ret.count > UnrotCols * UnrotRows

C2_TieWitness ==
    /\ LayoutDone
    /\ call.allow_rotation
    /\ Placeable
    /\ UnrotCols * UnrotRows = RotCols * RotRows
    /\ EffW # EffH
    /\ ret.count > 0

(* C3: sheets_needed(q, n) is 0 when q <= 0, q when q > 0 and n <= 0, and
   ceil(q / n) otherwise; sheets_needed(0, n) = 0 and
   sheets_needed(1000, 24) = 42. *)
C3_SheetsNeeded ==
    (pc = "done" /\ call.fn = "sheets_needed") =>
        LET q == call.quantity
            n == call.items_per_sheet
        IN  /\ q <= 0 => ret = 0
            /\ (q > 0 /\ n <= 0) => ret = q
            /\ (q > 0 /\ n > 0) => ret = CeilOf(q, n)
            /\ (q = 1000 /\ n = 24) => ret = 42

C3_Witness ==
    /\ pc = "done"
    /\ call.fn = "sheets_needed"
    /\ call.quantity = 1000
    /\ call.items_per_sheet = 24
    /\ ret = 42

(* C4: items_layout returns a zero-count result (count = 0, cols = 0 or
   rows = 0, nothing negative) whenever nothing can be placed: available
   width or height <= 0, effective item width or height <= 0, or the
   effective item larger than the sheet in both orientations. *)
NothingFits ==
    \/ AvailW <= 0 \/ AvailH <= 0
    \/ EffW <= 0 \/ EffH <= 0
    \/ /\ (EffW > call.sheet_w \/ EffH > call.sheet_h)
       /\ (EffH > call.sheet_w \/ EffW > call.sheet_h)

C4_ZeroWhenNothingFits ==
    LayoutDone =>
        /\ ret.count >= 0 /\ ret.cols >= 0 /\ ret.rows >= 0
        /\ NothingFits =>
              /\ ret.count = 0
              /\ (ret.cols = 0 \/ ret.rows = 0)

C4_Witness ==
    /\ LayoutDone
    /\ AvailW > 0 /\ AvailH > 0 /\ EffW > 0 /\ EffH > 0
    /\ call.allow_rotation
    /\ EffW > call.sheet_w
    /\ EffW > call.sheet_h
    /\ ret.count = 0

(* C6: for a booklet with a separate cover, a signature multiple >= 1 and a
   page that fits the inner sheet, booklet_imposition returns pages_rounded =
   the smallest multiple of the signature size >= total_pages, pages_inner =
   max(pages_rounded - 4, 0), pages_per_physical_sheet = items per side *
   (2 if duplex else 1) and inner sheets = ceil(pages_inner /
   pages_per_physical_sheet); 30 pages, signature 4, 4-up duplex give
   32, 28, 8 and 4. *)
BookletDone == pc = "done" /\ call.fn = "booklet_imposition"

BookletItemsSide ==
    items_per_sheet(call.a.sheet_w_mm, call.a.sheet_h_mm, call.a.final_page_w_mm,
                    call.a.final_page_h_mm, call.a.bleed_mm, call.a.gutter_mm,
                    call.a.margin_mm, TRUE)

IsSmallestMultiple(r, sig, tp) ==
    /\ r % sig = 0
    /\ r >= tp
    /\ r - sig < tp

C6_BookletSignature ==
    (BookletDone /\ call.a.cover_separate /\ call.a.enforce_signature_multiple >= 1
       /\ BookletItemsSide > 0) =>
        LET tp   == call.a.total_pages[1]
            side == BookletItemsSide
            ppp  == side * (IF call.a.duplex THEN 2 ELSE 1)
            inner == IF ret.pages_rounded - 4 > 0 THEN ret.pages_rounded - 4 ELSE 0
        IN  /\ IsSmallestMultiple(ret.pages_rounded, call.a.enforce_signature_multiple, tp)
            /\ ret.pages_inner = Some(inner)
            /\ ret.pages_per_physical_sheet = ppp
            /\ ret.inner_sheets = Some(CeilOf(inner, ppp))
            /\ (tp = 30 /\ call.a.enforce_signature_multiple = 4 /\ side = 4 /\ call.a.duplex) =>
                  /\ ret.pages_rounded = 32
                  /\ ret.pages_inner = Some(28)
                  /\ ret.pages_per_physical_sheet = 8
                  /\ ret.inner_sheets = Some(4)

C6_Witness ==
    /\ BookletDone
    /\ call.a.cover_separate
    /\ call.a.total_pages = Some(30)
    /\ call.a.enforce_signature_multiple = 4
    /\ call.a.duplex
    /\ BookletItemsSide = 4
    /\ ret.pages_rounded = 32
    /\ ret.inner_sheets = Some(4)

(* C7: when the deliverable carries no explicit print_price, so that the
   catalog is consulted, _auto_find_price_obj returns a rule matching
   (machine, the material's production sheet size) whenever one exists;
   otherwise a rule matching (machine, paper type) whenever one exists;
   otherwise any rule of the machine; otherwise None.  The paper type of a
   material is its paper_type attribute, or the material itself when it is
   a (named) PaperType. *)
FindDone == pc = "done" /\ call.fn = "_auto_find_price_obj"

FindMachine == call.deliverable.inner_machine

FindMaterial == call.deliverable.inner_material

RulesOfMachine ==
    {i \in 1..Len(call.catalog) :
        FindMachine # None /\ call.catalog[i].machine = FindMachine[1].id}

RulesOfSize ==
    {i \in RulesOfMachine :
        /\ FindMaterial # None
        /\ "size" \in DOMAIN FindMaterial[1]
        /\ FindMaterial[1].size # None
        /\ call.catalog[i].size = FindMaterial[1].size}

MaterialPaperTypes ==
    IF FindMaterial = None THEN {}
    ELSE IF "paper_type" \in DOMAIN FindMaterial[1] THEN {FindMaterial[1].paper_type[1]}
    ELSE IF FindMaterial[1].name # <<>> THEN {FindMaterial[1].id}
    ELSE {}

RulesOfPaper ==
    {i \in RulesOfMachine : call.catalog[i].paper_type \in MaterialPaperTypes}

ReturnsOneOf(S) ==
    \E i \in S : ret = Some(call.catalog[i])

NoExplicitPrice ==
    get(call.deliverable, "print_price", None) = None

C7_PricePriority ==
    (FindDone /\ NoExplicitPrice) =>
        /\ RulesOfSize # {} => ReturnsOneOf(RulesOfSize)
        /\ (RulesOfSize = {} /\ RulesOfPaper # {}) => ReturnsOneOf(RulesOfPaper)
        /\ (RulesOfSize = {} /\ RulesOfPaper = {} /\ RulesOfMachine # {}) =>
              ReturnsOneOf(RulesOfMachine)
        /\ RulesOfMachine = {} => ret = None

C7_Witness ==
    /\ FindDone
    /\ NoExplicitPrice
    /\ RulesOfSize # {}
    /\ RulesOfPaper # {}
    /\ RulesOfPaper \cap RulesOfSize = {}
    /\ \E i \in RulesOfPaper : \A j \in RulesOfSize : i < j
    /\ ReturnsOneOf(RulesOfSize)

(* C8: when no explicit price_per_sheet is supplied, the unit price chosen
   by _build_price_proxy_from is the double_side_price if the job's
   sidedness is double and the single_side_price otherwise; if the chosen
   field is absent or zero while the other is non-zero, the other field's
   value is used.  The fields are the rule's, unless the deliverable
   carries a non-zero value of its own for the field. *)
ProxyDone == pc = "done" /\ call.fn = "_build_price_proxy_from"

FieldValue(k) ==
    LET own  == get(call.deliverable, k, None)
        rule == IF call.price_obj = None THEN None ELSE call.price_obj[1][k]
    IN  IF own # None /\ own # Some(0) THEN own[1]
        ELSE IF call.price_obj # None THEN or0(rule)
        ELSE 0

WantsDouble ==
    LET d == call.deliverable
    IN  IF "duplex" \in DOMAIN d THEN d.duplex[1]
        ELSE IF "sidedness" \in DOMAIN d THEN d.sidedness = TextS2
        ELSE "total_pages" \in DOMAIN d

NoExplicitPricePerSheet ==
    get(call.deliverable, "price_per_sheet", None) \in {None, Some(0)}

C8_SidednessSelection ==
    (ProxyDone /\ NoExplicitPricePerSheet) =>
        LET chosen == IF WantsDouble THEN FieldValue("double_side_price")
                      ELSE FieldValue("single_side_price")
            other  == IF WantsDouble THEN FieldValue("single_side_price")
                      ELSE FieldValue("double_side_price")
        IN  /\ chosen # 0 => ret.price_per_sheet = chosen
            /\ (chosen = 0 /\ other # 0) => ret.price_per_sheet = other

C8_Witness ==
    /\ ProxyDone
    /\ NoExplicitPricePerSheet
    /\ WantsDouble
    /\ call.price_obj # None
    /\ "double_side_price" \notin DOMAIN call.deliverable
    /\ "single_side_price" \notin DOMAIN call.deliverable
    /\ call.price_obj[1].double_side_price = Some(8 * One)
    /\ call.price_obj[1].single_side_price = Some(5 * One)
    /\ ret.price_per_sheet = 8 * One

C8_FallbackWitness ==
    /\ ProxyDone
    /\ NoExplicitPricePerSheet
    /\ ~WantsDouble
    /\ FieldValue("single_side_price") = 0
    /\ FieldValue("double_side_price") = 8 * One
    /\ ret.price_per_sheet = 8 * One

(* C5: for a booklet deliverable with quantity q >= 0, the inner_sheets
   reported by compute_sheets_for_deliverable and priced by
   compute_total_cost equal q * ceil(inner pages / pages per physical
   sheet); q = 0 gives 0 sheets. *)
IsCostCall == call.fn \in {"compute_sheets_for_deliverable", "compute_total_cost"}

CostRule ==
    IF call.price_obj # None THEN call.price_obj
    ELSE auto_find_price_obj(call.deliverable, call.catalog)

CallImposition ==
    booklet_imposition(booklet_args(call.deliverable, CostRule,
                                    production_sheet(call.deliverable, CostRule)))

ReportedInnerSheets ==
    IF call.fn = "compute_total_cost" THEN ret.sheets.inner_sheets ELSE ret.inner_sheets

BookletWithCopies ==
    /\ pc = "done"
    /\ IsCostCall
    /\ get(call.deliverable, "total_pages", None) # None
    /\ get(call.deliverable, "quantity", None) # None
    /\ CallImposition.pages_per_physical_sheet > 0

C5_InnerSheetsTimesCopies ==
    BookletWithCopies =>
        LET q   == call.deliverable.quantity[1]
            imp == CallImposition
            per_copy == CeilOf(imp.pages_inner[1], imp.pages_per_physical_sheet)
        IN  /\ ReportedInnerSheets = q * per_copy
            /\ call.fn = "compute_total_cost" =>
                  ret.runs.inner.sheet_count = q * per_copy

(* C9: for a deliverable with no price fields of its own and for which no
   price rule is found, compute_total_cost returns total_cost = 0.00
   together with a warning that marks the missing price, for every quantity
   and sheet count, a sheet count of 0 included.  (Stated for calls without
   extras.) *)
TotalDone == pc = "done" /\ call.fn = "compute_total_cost"

Unpriced ==
    /\ DOMAIN call.deliverable \cap PriceKeys = {}
    /\ call.price_obj = None
    /\ call.cover_price_obj = None
    /\ "print_price" \notin DOMAIN call.deliverable
    /\ \A i \in 1..Len(call.catalog) :
          call.catalog[i].machine # call.deliverable.inner_machine[1].id

HasWarning(w) ==
    \E i \in 1..Len(ret.warnings) : ret.warnings[i] = w

C9_UnpricedIsZeroWithWarning ==
    (TotalDone /\ Unpriced /\ call.extras = <<>>) =>
        /\ ret.total_cost = 0
        /\ HasWarning("price_per_sheet is zero")

(* C10 as claimed: whenever the running cost (sheet count * price per
   sheet) of a run is below the resolved minimum charge, the total returned
   by compute_total_cost equals the minimum charge exactly (to the cent).
   Stated for deliverables priced as a single run, whose section total is
   total_cost. *)
ResolvedMinimumCharge ==
    build_price_proxy_from(call.deliverable, CostRule).minimum_charge

SingleRun == ret.runs.cover = None

IsQuantized(x, target) ==
    /\ x % Cent = 0
    /\ 2 * (x - target) <= Cent
    /\ 2 * (target - x) < Cent

C10_RunningBelowMinimum ==
    (TotalDone /\ SingleRun /\ ret.runs.inner.running_cost < ResolvedMinimumCharge) =>
        IsQuantized(ret.total_cost, ResolvedMinimumCharge)

(* C10 as amended: for a deliverable priced as a single run, whenever the
   run's total (running cost plus waste, setup, makeready, finishing and
   extras) is below the resolved minimum charge, total_cost is the minimum
   charge quantized to 2 decimals: the minimum charge exactly when it is a
   whole number of cents. *)
C10_TotalBelowMinimum ==
    (TotalDone /\ SingleRun /\ ret.runs.inner.total_run_cost < ResolvedMinimumCharge) =>
        /\ IsQuantized(ret.total_cost, ResolvedMinimumCharge)
        /\ ResolvedMinimumCharge % Cent = 0 => ret.total_cost = ResolvedMinimumCharge

C10_Witness ==
    /\ TotalDone
    /\ SingleRun
    /\ ret.runs.inner.sheet_count > 0
    /\ ret.runs.inner.running_cost > 0
    /\ ret.runs.inner.running_cost < ret.runs.inner.total_run_cost
    /\ ret.runs.inner.total_run_cost < ResolvedMinimumCharge
    /\ ret.total_cost = ResolvedMinimumCharge

----------------------------------------------------------------------------
(* C11: when the inner and the cover run of a deliverable are priced from
   different rules (a cover price rule is passed and the deliverable
   carries no minimum charge of its own), compute_total_cost raises each
   section's subtotal to that section's own minimum charge before summing
   the two; no section's minimum is applied to the grand total. *)
CoverMinimumCharge ==
    build_price_proxy_from(call.deliverable, call.cover_price_obj).minimum_charge

TwoRules ==
    /\ TotalDone
    /\ ret.runs.inner.sheet_count > 0
    /\ ret.runs.cover # None
    /\ CostRule # None
    /\ call.cover_price_obj # None
    /\ call.cover_price_obj # CostRule
    /\ "minimum_charge" \notin DOMAIN call.deliverable

C11_SectionMinimums ==
    TwoRules =>
        IsQuantized(ret.total_cost,
                    max2(ret.runs.inner.total_run_cost, ResolvedMinimumCharge)
                    + max2(ret.runs.cover[1].total_run_cost, CoverMinimumCharge))

----------------------------------------------------------------------------
(* C12 as claimed: for sheet_count > 0 the total_run_cost returned by
   compute_print_run_cost is running cost + waste cost + setup cost +
   per-sheet finishing cost + extras (an extra whose key ends in
   "_per_sheet" times sheet_count, every other extra flat), to the cent,
   and nothing else. *)
RunDone == pc = "done" /\ call.fn = "compute_print_run_cost"

ExtraAt(i) ==
    IF i > Len(call.extras) THEN 0
    ELSE IF call.extras[i][1] = "_per_sheet"
    THEN call.sheet_count * call.extras[i][2]
    ELSE call.extras[i][2]

CallExtras == ExtraAt(1) + ExtraAt(2) + ExtraAt(3)

ClaimedComponents ==
    ret.running_cost + ret.waste_cost + call.price_proxy.setup_cost
    + ret.finishing_cost + CallExtras

C12_RunTotalWithoutMakeready ==
    (RunDone /\ call.sheet_count > 0) =>
        IsQuantized(ret.total_run_cost, ClaimedComponents)

(* C12 as amended: for sheet_count > 0 the total_run_cost is running cost +
   waste cost + setup cost + makeready cost + per-sheet finishing cost +
   extras, quantized to 2 decimals; it is exactly that sum when setup,
   makeready and extras are whole cents. *)
C12_RunTotal ==
    (RunDone /\ call.sheet_count > 0) =>
        LET sum == ClaimedComponents + call.price_proxy.makeready_cost
        IN  /\ Len(call.extras) <= 3
            /\ IsQuantized(ret.total_run_cost, sum)
            /\ sum % Cent = 0 => ret.total_run_cost = sum

C12_Witness ==
    /\ RunDone
    /\ call.sheet_count > 1
    /\ ret.running_cost > 0
    /\ ret.waste_cost > 0
    /\ call.price_proxy.setup_cost > 0
    /\ call.price_proxy.makeready_cost > 0
    /\ ret.finishing_cost > 0
    /\ Len(call.extras) = 3
    /\ IsQuantized(ret.total_run_cost,
                   ClaimedComponents + call.price_proxy.makeready_cost)
    /\ ~IsQuantized(ret.total_run_cost, ClaimedComponents)

----------------------------------------------------------------------------
(* C13: every monetary value returned by compute_print_run_cost
   (price_per_sheet, setup_cost, makeready_cost, waste_cost, running_cost,
   finishing_cost, extras_cost, total_run_cost) and the total_cost of
   compute_total_cost is its unrounded value quantized to 2 decimals with
   round-half-up: half a cent always rounds away from zero. *)
HalfUpCents(x) == ((x + Cent \div 2) \div Cent) * Cent

RunPricePerSheet ==
    IF call.price_proxy.price_per_sheet = 0 /\ call.price_proxy.rate_per_1000 > 0
    THEN rate_to_price(call.price_proxy.rate_per_1000)
    ELSE call.price_proxy.price_per_sheet

C13_HalfUpEverywhere ==
    /\ (RunDone /\ call.sheet_count > 0) =>
          /\ ret.price_per_sheet = HalfUpCents(RunPricePerSheet)
          /\ ret.running_cost = HalfUpCents(call.sheet_count * RunPricePerSheet)
          /\ ret.waste_cost = HalfUpCents(ret.waste_sheets * RunPricePerSheet)
          /\ ret.finishing_cost =
                HalfUpCents(call.sheet_count * call.price_proxy.finishing_cost_per_sheet)
          /\ ret.setup_cost = HalfUpCents(call.price_proxy.setup_cost)
          /\ ret.makeready_cost = HalfUpCents(call.price_proxy.makeready_cost)
          /\ ret.extras_cost = HalfUpCents(CallExtras)
          /\ ret.total_run_cost % Cent = 0
    /\ TotalDone => ret.total_cost % Cent = 0

----------------------------------------------------------------------------
(* C14: for sheet_count > 0 and waste_percent > 0, compute_print_run_cost
   returns waste_sheets = sheet_count * waste_percent / 100 rounded half-up
   to an integer and waste_cost = waste_sheets * price per sheet (to the
   cent; exactly when the price is whole cents); for waste_percent <= 0
   both are 0. *)
WasteRatioTimes200 == 2 * call.sheet_count * call.price_proxy.waste_percent

C14_WasteSheets ==
    (RunDone /\ call.sheet_count > 0) =>
        IF call.price_proxy.waste_percent > 0
        THEN /\ ret.waste_sheets \in Nat
             /\ WasteRatioTimes200 - 100 * One < 200 * One * ret.waste_sheets
             /\ 200 * One * ret.waste_sheets <= WasteRatioTimes200 + 100 * One
             /\ IsQuantized(ret.waste_cost, ret.waste_sheets * RunPricePerSheet)
             /\ RunPricePerSheet % Cent = 0 =>
                   ret.waste_cost = ret.waste_sheets * ret.price_per_sheet
        ELSE ret.waste_sheets = 0 /\ ret.waste_cost = 0

C14_Witness ==
    /\ RunDone
    /\ call.sheet_count = 10
    /\ call.price_proxy.waste_percent = 5 * One
    /\ call.price_proxy.price_per_sheet = 2 * One
    /\ ret.waste_sheets = 1
    /\ ret.waste_cost = 2 * One

----------------------------------------------------------------------------
(* finishing_costs.py.  compute_finishing_cost either returns a dictionary
   or raises; a raised exception is the result Raised. *)

(* FinishingService.CalculationMethod of machines/models.py: member name
   |-> stored value *)
CalculationMethod ==
    [PER_SHEET_SINGLE_SIDED |-> "PER_SHEET_SINGLE",
     PER_SHEET_DOUBLE_sided |-> "PER_SHEET_DOUBLE",
     PER_ITEM |-> "PER_ITEM",
     PER_SQ_METER |-> "PER_SQ_METER"]

Raised == [raised |-> "AttributeError"]

(* FinishingService.CalculationMethod.<name>: evaluating the attribute of a
   member the enumeration does not have raises AttributeError *)
has_member(name) == name \in DOMAIN CalculationMethod

(* "Determine quantity based on calculation method": the if/elif chain.
   Each test evaluates its member before comparing, so a test that is
   reached raises when the member is missing.  None stands for the raise. *)
effective_quantity(method, job_data) ==
    IF ~has_member("PER_JOB") THEN None
    ELSE IF method = CalculationMethod["PER_JOB"] THEN Some(1)
    ELSE IF ~has_member("PER_SET") THEN None
    ELSE IF method = CalculationMethod["PER_SET"]
    THEN Some(get(job_data, "set_count", 0))
    ELSE IF ~has_member("PER_COPY") THEN None
    ELSE IF method = CalculationMethod["PER_COPY"]
    THEN Some(get(job_data, "copy_count", 0))
    ELSE IF ~has_member("PER_SHEET") THEN None
    ELSE IF method = CalculationMethod["PER_SHEET"]
    THEN Some(get(job_data, "sheet_count", 0))
    ELSE IF ~has_member("PER_SHEET_PER_SIDE") THEN None
    ELSE IF method = CalculationMethod["PER_SHEET_PER_SIDE"]
    THEN Some(get(job_data, "sheet_count", 0) * get(job_data, "side_count", 1))
    ELSE Some(0)

(* TieredFinishingPrice.objects.filter(service, machine, min_quantity <=
   qty, max_quantity >= qty).first(); the table is ordered by min_quantity *)
find_tier(tiers, service, machine, qty) ==
    first_where(tiers, {i \in 1..Len(tiers) :
                          /\ tiers[i].service = service.id
                          /\ tiers[i].machine = machine
                          /\ tiers[i].min_quantity <= qty
                          /\ tiers[i].max_quantity >= qty})

(* compute_finishing_cost *)
compute_finishing_cost(service, machine, job_data, tiers) ==
    IF service = None \/ machine = None
    THEN [total |-> 0, unit_price |-> 0]
    ELSE LET qty == effective_quantity(service[1].calculation_method, job_data)
             priced(tier) ==
                 IF tier = None
                 THEN [total |-> 0, unit_price |-> 0, quantity |-> qty[1]]
                 ELSE IF "price" \notin DOMAIN tier[1] THEN Raised
                 ELSE [total |-> qty[1] * tier[1].price,
                       unit_price |-> tier[1].price, quantity |-> qty[1]]
         IN  IF qty = None THEN Raised
             ELSE CHOOSE r \in {priced(tier) :
                     tier \in {find_tier(tiers, service[1], machine[1], qty[1])}} : TRUE

(* calculate_finish_cost of pricing/pricing.py *)
calculate_finish_cost(finish, qty, sheets) ==
    IF finish.calculation_method = CalculationMethod["PER_ITEM"]
    THEN max2(qty * or0(finish.simple_price), finish.minimum_charge)
    ELSE IF finish.calculation_method = CalculationMethod["PER_SHEET_SINGLE_SIDED"]
    THEN max2(sheets * or0(finish.simple_price), finish.minimum_charge)
    ELSE 0

(* Calls of compute_finishing_cost and calculate_finish_cost *)

(* a TieredFinishingPrice row of pricing/models.py *)
Tier(lo, hi, p) ==
    [service |-> "s1", machine |-> "m1", min_quantity |-> lo, max_quantity |-> hi,
     unit_price |-> p, setup_fee |-> 0]

TierTables ==
    {<<>>,
     <<Tier(1, 100, 5 * One), Tier(101, 500, 4 * One)>>,
     <<Tier(1, 2, 5 * One), Tier(4, MaxCopies + 1, 4 * One)>>}

FinishingServices ==
    {None}
    \cup {Some([id |-> "s1", calculation_method |-> CalculationMethod[m],
                pricing_method |-> pm, simple_price |-> sp, minimum_charge |-> mc]) :
            m \in DOMAIN CalculationMethod, pm \in {"SIMPLE", "TIERED"},
            sp \in {None, Some(3 * One)}, mc \in {0, 700 * One}}

JobData ==
    {attr("copy_count", c) @@ attr("set_count", st) @@ attr("sheet_count", sh)
       @@ attr("side_count", sd) :
        c \in {<<>>, <<150>>} \cup {<<n>> : n \in 0..MaxCopies},
        st \in {<<>>, <<1>>}, sh \in {<<>>, <<0>>, <<3>>}, sd \in {<<>>, <<2>>}}

FinishingCalls ==
    [fn : {"compute_finishing_cost"}, service : FinishingServices,
     machine : {None, Some("m1")}, job_data : JobData, tiers : TierTables]

FinishCostCalls ==
    [fn : {"calculate_finish_cost"}, finish : FinishingServices \ {None},
     qty : 0..MaxCopies, sheets_needed : {0, 3}]

InitFinishing ==
    /\ pc = "ready"
    /\ call \in FinishingCalls \cup FinishCostCalls
    /\ ret = None

DoComputeFinishingCost ==
    /\ pc = "ready"
    /\ call.fn = "compute_finishing_cost"
    /\ ret' = compute_finishing_cost(call.service, call.machine, call.job_data,
                                      call.tiers)
    /\ pc' = "done"
    /\ UNCHANGED call

DoCalculateFinishCost ==
    /\ pc = "ready"
    /\ call.fn = "calculate_finish_cost"
    /\ ret' = calculate_finish_cost(call.finish[1], call.qty, call.sheets_needed)
    /\ pc' = "done"
    /\ UNCHANGED call

NextFinishing ==
    \/ DoComputeFinishingCost
    \/ DoCalculateFinishCost

SpecFinishing == InitFinishing /\ [][NextFinishing]_vars

----------------------------------------------------------------------------
(* C15: for every calculation method a FinishingService can carry,
   compute_finishing_cost derives the effective quantity from the method:
   per-item gives the copy count, per-sheet the sheet count,
   per-sheet-per-side the sheet count times the side count; the call
   returns that quantity and does not raise. *)
FinishDone == pc = "done" /\ call.fn = "compute_finishing_cost"

FinishInputsGiven == call.service # None /\ call.machine # None

ServiceMethod == call.service[1].calculation_method

C15_EffectiveQuantity ==
    (FinishDone /\ FinishInputsGiven) =>
        /\ ret # Raised
        /\ "quantity" \in DOMAIN ret
        /\ ServiceMethod = "PER_ITEM" =>
              ret.quantity = get(call.job_data, "copy_count", 0)
        /\ ServiceMethod = "PER_SHEET_SINGLE" =>
              ret.quantity = get(call.job_data, "sheet_count", 0)
        /\ ServiceMethod = "PER_SHEET_DOUBLE" =>
              ret.quantity = get(call.job_data, "sheet_count", 0)
                             * get(call.job_data, "side_count", 1)

(* C16: for tiered finishing with non-overlapping tiers,
   compute_finishing_cost uses the unit price of the tier whose [min, max]
   range contains the effective quantity and returns total = quantity *
   that unit price (tiers [1-100]=5 and [101-500]=4 with quantity 150 give
   unit price 4 and total 600); when no tier contains the quantity it
   returns unit price 0 and total 0 without raising. *)
ClaimedQuantity ==
    IF ServiceMethod = "PER_ITEM" THEN get(call.job_data, "copy_count", 0)
    ELSE IF ServiceMethod = "PER_SHEET_SINGLE" THEN get(call.job_data, "sheet_count", 0)
    ELSE get(call.job_data, "sheet_count", 0) * get(call.job_data, "side_count", 1)

MatchingTiers ==
    {i \in 1..Len(call.tiers) :
        /\ call.tiers[i].min_quantity <= ClaimedQuantity
        /\ ClaimedQuantity <= call.tiers[i].max_quantity}

C16_TieredUnitPrice ==
    (FinishDone /\ FinishInputsGiven /\ call.service[1].pricing_method = "TIERED"
       /\ ServiceMethod # "PER_SQ_METER") =>
        /\ ret # Raised
        /\ \A i \in MatchingTiers :
              /\ ret.unit_price = call.tiers[i].unit_price
              /\ ret.total = ClaimedQuantity * call.tiers[i].unit_price
        /\ MatchingTiers = {} => ret.unit_price = 0 /\ ret.total = 0

(* C17: the finishing cost returned for a service is max(effective quantity
   * unit price, the service's minimum charge), the unit price being the
   single configured price under simple pricing and the matching tier's
   price under tiered pricing; it is never below the minimum charge. *)
ClaimedUnitPrice ==
    IF call.service[1].pricing_method = "SIMPLE"
    THEN or0(call.service[1].simple_price)
    ELSE IF MatchingTiers = {} THEN 0
    ELSE call.tiers[CHOOSE i \in MatchingTiers : TRUE].unit_price

C17_FinishingMinimumCharge ==
    /\ (FinishDone /\ FinishInputsGiven /\ ServiceMethod # "PER_SQ_METER") =>
          /\ ret # Raised
          /\ ret.total = max2(ClaimedQuantity * ClaimedUnitPrice,
                              call.service[1].minimum_charge)
    /\ (pc = "done" /\ call.fn = "calculate_finish_cost") =>
          ret >= call.finish[1].minimum_charge

----------------------------------------------------------------------------
(* C18: for every flat (non-booklet) deliverable with quantity > 0 whose
   item does not fit on the resolved production sheet (items per sheet =
   0), the results of compute_sheets_for_deliverable and compute_total_cost
   carry a warning that marks the does-not-fit condition; the deliverable
   is never reported as inner_sheets = quantity with no such marker. *)
ReportedWarnings == get(ret, "warnings", <<>>)

ReportedImposition ==
    IF call.fn = "compute_total_cost" THEN ret.sheets.imposition ELSE ret.imposition

(* the warnings of the run cost and of the minimum charge, which say
   nothing about the fit *)
PricingWarnings ==
    {"zero sheet_count", "price_per_sheet is zero", "Applied minimum charge"}

FlatDoesNotFit ==
    /\ pc = "done"
    /\ IsCostCall
    /\ ~is_booklet(call.deliverable)
    /\ get(call.deliverable, "quantity", None) # None
    /\ call.deliverable.quantity[1] > 0
    /\ get(ReportedImposition, "items_per_sheet", 1) = 0

C18_DoesNotFitWarning ==
    FlatDoesNotFit =>
        \E i \in 1..Len(ReportedWarnings) : ReportedWarnings[i] \notin PricingWarnings

----------------------------------------------------------------------------
(* C19: whenever price resolution for a deliverable takes a degraded path
   (the rule was matched on the machine alone because no size or paper
   type rule exists, or the other sidedness's price was used because the
   requested one is absent or zero), the warnings returned by
   compute_total_cost contain an entry marking that fallback. *)
MachineOnlyMatch ==
    /\ call.price_obj = None
    /\ NoExplicitPrice
    /\ RulesOfSize = {}
    /\ RulesOfPaper = {}
    /\ RulesOfMachine # {}

OtherSideUsed ==
    /\ CostRule # None
    /\ DOMAIN call.deliverable \cap PriceKeys = {}
    /\ LET wanted == IF WantsDouble THEN CostRule[1].double_side_price
                     ELSE CostRule[1].single_side_price
           other  == IF WantsDouble THEN CostRule[1].single_side_price
                     ELSE CostRule[1].double_side_price
       IN  ~is_set(wanted) /\ is_set(other)

C19_FallbackWarning ==
    (TotalDone /\ ret.runs.inner.sheet_count > 0
       /\ (MachineOnlyMatch \/ OtherSideUsed)) =>
        \E i \in 1..Len(ret.warnings) : ret.warnings[i] \notin PricingWarnings

----------------------------------------------------------------------------
(* C20: every configuration gap detected while computing sheets (the
   production sheet size cannot be resolved; a booklet with missing or
   zero total_pages; a booklet page or cover that does not fit its sheet)
   appears as a warning in the result of compute_total_cost: no warning of
   compute_sheets_for_deliverable or booklet_imposition is dropped. *)
SheetWarnings ==
    get(compute_sheets_for_deliverable(call.deliverable, CostRule, call.catalog),
        "warnings", <<>>)

DoesNotFitNotes ==
    get(ret.sheets.imposition, "notes", {}) \cap {"inner_does_not_fit", "cover_does_not_fit"}

C20_ConfigurationGapWarnings ==
    TotalDone =>
        /\ \A i \in 1..Len(SheetWarnings) : HasWarning(SheetWarnings[i])
        /\ DoesNotFitNotes # {} =>
              \E i \in 1..Len(ret.warnings) : ret.warnings[i] \notin PricingWarnings

----------------------------------------------------------------------------
(* C21: when the effective quantity of a tiered finishing service falls in
   no tier, the result returned by compute_finishing_cost carries a warning
   in addition to the zero cost. *)
NoTierMatches ==
    /\ FinishDone
    /\ FinishInputsGiven
    /\ call.service[1].pricing_method = "TIERED"
    /\ ServiceMethod # "PER_SQ_METER"
    /\ MatchingTiers = {}

C21_NoTierWarning ==
    NoTierMatches =>
        /\ ret # Raised
        /\ ret.total = 0
        /\ "warnings" \in DOMAIN ret

----------------------------------------------------------------------------
(* C22 as claimed: for every booklet whose rounded page count is <= 4 (and
   whose page fits the sheet), booklet_imposition reports no inner run,
   inner_sheets = 0 and pages_inner = 0, whether or not the cover is
   printed as a separate run. *)
SmallBooklet ==
    /\ BookletDone
    /\ ret.pages_rounded <= 4

C22_NoInnerRunAnyCover ==
    (SmallBooklet /\ ret.pages_per_physical_sheet > 0) =>
        /\ ret.inner_sheets = Some(0)
        /\ ret.pages_inner = Some(0)

(* C22 as amended: for every booklet whose rounded page count is <= 4 and
   whose cover is printed as a separate run, booklet_imposition reports no
   inner run: inner_sheets = 0 and pages_inner = 0 when the page fits the
   sheet, and no sheet count at all (inner_sheets = None) when it does
   not. *)
C22_NoInnerRunSeparateCover ==
    (SmallBooklet /\ call.a.cover_separate) =>
        IF ret.pages_per_physical_sheet > 0
        THEN ret.inner_sheets = Some(0) /\ ret.pages_inner = Some(0)
        ELSE ret.inner_sheets = None /\ ret.pages_inner = None

C22_Witness ==
    /\ SmallBooklet
    /\ call.a.cover_separate
    /\ call.a.total_pages = Some(3)
    /\ call.a.enforce_signature_multiple = 4
    /\ ret.pages_rounded = 4
    /\ ret.pages_per_physical_sheet > 0
    /\ ret.inner_sheets = Some(0)
    /\ ret.cover_sheets = Some(1)

----------------------------------------------------------------------------
(* C23: for fixed page size, sheet size, bleed, gutter, margin, duplex,
   signature multiple and cover setting, the sheet counts returned by
   booklet_imposition (inner_sheets and total_physical_sheets) are
   non-decreasing in total_pages: the call with p1 pages never reports more
   sheets than the same call with p2 >= p1 pages. *)
PageCounts == (0..MaxPages) \cup {30}

WithPages(p) == booklet_imposition([call.a EXCEPT !.total_pages = Some(p)])

NoMoreThan(x, y) ==
    IF x = None \/ y = None THEN x = y ELSE x[1] <= y[1]

C23_MonotoneInPages ==
    BookletDone =>
        \A p2 \in PageCounts :
            p2 >= call.a.total_pages[1] =>
                /\ NoMoreThan(ret.inner_sheets, WithPages(p2).inner_sheets)
                /\ NoMoreThan(ret.total_physical_sheets,
                              WithPages(p2).total_physical_sheets)

C23_Witness ==
    /\ BookletDone
    /\ call.a.total_pages = Some(10)
    /\ call.a.enforce_signature_multiple = 4
    /\ ret.inner_sheets = Some(1)
    /\ WithPages(30).inner_sheets = Some(4)
    /\ WithPages(9).inner_sheets = Some(1)

----------------------------------------------------------------------------
(* C24.  The cover run of booklet_imposition. *)

CoverSheetGiven ==
    truthy(call.a.cover_sheet_w_mm) /\ truthy(call.a.cover_sheet_h_mm)

(* the call's own parameter where the cover has none *)
CoverOr(own, inner) == IF own # None THEN own ELSE inner

(* the inner run's imposition, made on the cover's sheet with the cover's
   bleed, gutter and margin *)
InnerRunOnCoverSheet ==
    booklet_imposition([call.a EXCEPT
        !.sheet_w_mm = call.a.cover_sheet_w_mm,
        !.sheet_h_mm = call.a.cover_sheet_h_mm,
        !.bleed_mm   = CoverOr(call.a.cover_bleed_mm, @),
        !.gutter_mm  = CoverOr(call.a.cover_gutter_mm, @),
        !.margin_mm  = CoverOr(call.a.cover_margin_mm, @)])

ClaimedCoverPages ==
    IF CoverSheetGiven
    THEN InnerRunOnCoverSheet.pages_per_physical_sheet
    ELSE ret.pages_per_physical_sheet

(* C24: when the cover is a separate run and the page fits the inner sheet,
   the cover's pages per physical sheet are what the inner run's imposition
   gives on the cover's sheet (a width and a height, both non-zero) with the
   cover's bleed, gutter and margin, each taken from the inner run when the
   cover has none; with no cover sheet they are the inner run's pages per
   physical sheet.  When that value is positive the cover takes
   ceil(4 / value) sheets per copy. *)
C24_CoverImposition ==
    (BookletDone /\ call.a.cover_separate /\ ret.inner_sheets # None) =>
        /\ ret.cover_pages_per_physical_sheet = Some(ClaimedCoverPages)
        /\ ClaimedCoverPages > 0 =>
               /\ ret.cover_sheets # None
               /\ ret.cover_sheets[1] * ClaimedCoverPages >= 4
               /\ (ret.cover_sheets[1] - 1) * ClaimedCoverPages < 4

C24_Witness ==
    /\ BookletDone /\ call.a.cover_separate /\ ret.inner_sheets # None
    /\ CoverSheetGiven
    /\ call.a.cover_margin_mm # None /\ call.a.cover_margin_mm # call.a.margin_mm
    /\ call.a.cover_gutter_mm = None
    /\ ret.cover_pages_per_physical_sheet # Some(ret.pages_per_physical_sheet)
    /\ ret.cover_pages_per_physical_sheet = Some(2)
    /\ ret.cover_sheets = Some(2)

----------------------------------------------------------------------------
(* C25.  _get_sheet_sidedness. *)

SidednessDone == pc = "done" /\ call.fn = "_get_sheet_sidedness"

DuplexFlag == get(call.deliverable, "duplex", None)

(* the sidedness text: inner_sidedness, or sidedness when that is missing *)
SidednessText ==
    IF get(call.deliverable, "inner_sidedness", None) # None
    THEN call.deliverable.inner_sidedness
    ELSE get(call.deliverable, "sidedness", None)

DoubleTexts == {TextS2, TextDuplex, TextTwo, TextDouble}

SingleTexts == {TextS1, TextSingle}

MarkedBooklet ==
    \/ ("saddle_stitched" \in DOMAIN call.deliverable /\ call.deliverable.saddle_stitched)
    \/ ("total_pages" \in DOMAIN call.deliverable
          /\ call.deliverable.total_pages \notin {None, Some(0)})

(* C25: the duplex flag, when set, decides ('double' for true, 'single' for
   false); otherwise the sidedness text decides when there is one; with
   neither, a booklet is 'double' and anything else 'single'. *)
C25_SidednessDecision ==
    SidednessDone =>
        /\ DuplexFlag # None => ret = (IF DuplexFlag[1] THEN "double" ELSE "single")
        /\ (DuplexFlag = None /\ SidednessText \in DoubleTexts) => ret = "double"
        /\ (DuplexFlag = None /\ SidednessText \in SingleTexts) => ret = "single"
        /\ (DuplexFlag = None /\ SidednessText = None) =>
               ret = (IF MarkedBooklet THEN "double" ELSE "single")

C25_Witness ==
    /\ SidednessDone
    /\ DuplexFlag = Some(FALSE)
    /\ SidednessText = TextS2
    /\ MarkedBooklet
    /\ ret = "single"

----------------------------------------------------------------------------
(* orders/models.py: Order.total_price.  The deliverables of an order are
   rows read from the database; total_price is a DecimalField with two
   decimal places. *)

MaxDeliverables == 3

RECURSIVE sum_from(_, _, _)
(* sum(iterable, start): start + d1 + d2 + ..., from the left *)
sum_from(ds, i, acc) ==
    IF i > Len(ds) THEN acc ELSE sum_from(ds, i + 1, acc + ds[i].total_price)

order_total_price_blocked(deliverables) ==
    LET unpriced == {i \in DOMAIN deliverables : deliverables[i].total_price = 0}
        n == IF unpriced = {} THEN Len(deliverables)
             ELSE (CHOOSE i \in unpriced : \A k \in unpriced : i <= k) - 1
    IN  quantize2_half_up(sum_from(SubSeq(deliverables, 1, n), 1, 0))

(* Order.total_price *)
order_total_price(deliverables) ==
    quantize2_half_up(sum_from(deliverables, 1, 0))

StoredTotals == {0, Cent, 12 * One + 50 * Cent, 99 * One + 99 * Cent, 100 * One + 5 * Cent}

(* a stored deliverable: its saved total and what it was saved for *)
StoredDeliverables ==
    [total_price : StoredTotals, quantity : {1, MaxQty}]

OrderCalls ==
    {[fn |-> "Order.total_price", deliverables |-> ds] :
        ds \in UNION {[1..n -> StoredDeliverables] : n \in 0..MaxDeliverables}}

InitOrder ==
    /\ pc = "ready"
    /\ call \in OrderCalls
    /\ ret = None

DoOrderTotalPrice ==
    /\ pc = "ready"
    /\ call.fn = "Order.total_price"
    /\ ret' = order_total_price(call.deliverables)
    /\ pc' = "done"
    /\ UNCHANGED call

NextOrder == DoOrderTotalPrice

SpecOrder == InitOrder /\ [][NextOrder]_vars

----------------------------------------------------------------------------
(* C26.  The order total. *)

OrderDone == pc = "done" /\ call.fn = "Order.total_price"

RECURSIVE TimesOccurring(_, _)
(* how many deliverables of the order have stored total v, times v *)
TimesOccurring(v, left) ==
    IF left = {} THEN 0
    ELSE LET i == CHOOSE j \in left : TRUE
         IN  (IF call.deliverables[i].total_price = v THEN v ELSE 0)
             + TimesOccurring(v, left \ {i})

RECURSIVE StoredSum(_)
(* the sum of the stored totals, taken value by value *)
StoredSum(values) ==
    IF values = {} THEN 0
    ELSE LET v == CHOOSE w \in values : TRUE
         IN  TimesOccurring(v, DOMAIN call.deliverables) + StoredSum(values \ {v})

Reordered(p) == [i \in DOMAIN call.deliverables |-> call.deliverables[p[i]]]

Priced == {i \in DOMAIN call.deliverables : call.deliverables[i].total_price # 0}

(* C26: the order total is the sum of the stored totals of its deliverables,
   a multiple of 0.01; it is the same in whatever order the deliverables are
   read, and the same as the total of the priced deliverables alone. *)
C26_OrderTotal ==
    OrderDone =>
        /\ ret = StoredSum(StoredTotals)
        /\ ret % Cent = 0
        /\ \A p \in Permutations(DOMAIN call.deliverables) :
               order_total_price(Reordered(p)) = ret
        /\ \A i \in DOMAIN call.deliverables :
               call.deliverables[i].total_price = 0 =>
                   order_total_price(SelectSeq(call.deliverables,
                       LAMBDA d : d.total_price # 0)) = ret

C26_Witness ==
    /\ OrderDone
    /\ Len(call.deliverables) = MaxDeliverables
    /\ call.deliverables[1].total_price = 0
    /\ call.deliverables[2].total_price = 99 * One + 99 * Cent
    /\ call.deliverables[3].total_price = Cent
    /\ ret = 100 * One

----------------------------------------------------------------------------
(* Concurrent calls of compute_total_cost.  The arguments of a call are
   references to objects that another call may have been given too; the
   objects are held in call.heap by name.  A call's proxies, sheets and runs
   are its own local variables, held in ret[t]. *)

Threads == {1, 2}

RuleZero ==
    [RuleP1 EXCEPT !.single_side_price = Some(0), !.double_side_price = Some(0),
                   !.minimum_charge = Some(0)]

BookletJob ==
    [size |-> Some(Page), inner_machine |-> Some(Machine1),
     inner_material |-> Some(Paper(<<Some(SizeA)>>)),
     bleed_mm |-> Some(0), gutter_mm |-> Some(0), gripper_mm |-> Some(0),
     quantity |-> Some(2), total_pages |-> Some(8), unit_price |-> Some(3350)]

FlatJob ==
    [size |-> Some(Page), inner_machine |-> Some(Machine1),
     inner_material |-> Some(Paper(<<Some(SizeA)>>)),
     bleed_mm |-> Some(0), gutter_mm |-> Some(0), gripper_mm |-> Some(0),
     quantity |-> Some(MaxCopies), unit_price |-> Some(3350)]

(* the objects the calls are given, and the pricing table *)
HeapInit ==
    [d1 |-> BookletJob, d2 |-> FlatJob, r |-> RuleP1Min, rz |-> RuleZero,
     rc |-> RuleCover, e |-> SomeExtras, db |-> <<RuleP1Min>>]

ThreadArgs ==
    [deliverable : {"d1", "d2"}, price_obj : {None, Some("r"), Some("rz")},
     cover_price_obj : {None, Some("rz"), Some("rc")}, extras : {None, Some("e")}]

(* the object a reference names *)
deref(heap, ref) ==
    IF ref = None THEN None ELSE Some(heap[ref[1]])

(* lines 434-446: the price object, the two proxies and the sheets *)
resolve_step(heap, args) ==
    LET deliverable == heap[args.deliverable]
        given       == deref(heap, args.price_obj)
        price_obj   == IF given = None
                       THEN auto_find_price_obj(deliverable, heap.db) ELSE given
        cover_ref   == IF args.cover_price_obj # None THEN args.cover_price_obj
                       ELSE args.price_obj
        cover_obj   == IF args.cover_price_obj # None
                       THEN deref(heap, args.cover_price_obj) ELSE price_obj
    IN  [price_ref |-> args.price_obj, cover_ref |-> cover_ref,
         price_proxy |-> build_price_proxy_from(deliverable, price_obj),
         cover_proxy |-> build_price_proxy_from(deliverable, cover_obj),
         sheets |-> compute_sheets_for_deliverable(deliverable, price_obj, heap.db),
         inner_run |-> None, cover_run |-> None]

store_price_per_sheet_on_input(heap, locals, which, ref, pps) ==
    [heap |-> IF ref = None THEN heap
              ELSE [heap EXCEPT ![ref[1]] = ("price_per_sheet" :> Some(pps)) @@ @],
     locals |-> [locals EXCEPT ![which].price_per_sheet = pps]]

(* price_proxy.price_per_sheet = ... and cover_proxy.price_per_sheet = ...:
   an assignment to the call's own SimpleNamespace *)
store_price_per_sheet(heap, locals, which, ref, pps) ==
    [heap |-> heap,
     locals |-> [locals EXCEPT ![which].price_per_sheet = pps]]

(* lines 449-459: the unit price turned into a sheet price, the inner run *)
inner_step(heap, locals, args) ==
    LET imposition == locals.sheets.imposition
        ppp        == get(imposition, "pages_per_physical_sheet", 0)
        items_on_sheet == IF ppp # 0 THEN ppp ELSE get(imposition, "items_per_sheet", 0)
        proxy0     == locals.price_proxy
        stored     == IF proxy0.price_per_sheet = 0 /\ proxy0.unit_price # None
                         /\ items_on_sheet > 0
                      THEN store_price_per_sheet(heap, locals, "price_proxy",
                               locals.price_ref,
                               quantize2(proxy0.unit_price[1] * items_on_sheet))
                      ELSE [heap |-> heap, locals |-> locals]
        extras     == IF args.extras = None THEN <<>> ELSE stored.heap[args.extras[1]]
    IN  [heap |-> stored.heap,
         locals |-> [stored.locals EXCEPT !.inner_run =
                        Some(compute_print_run_cost(stored.locals.sheets.inner_sheets,
                                                    stored.locals.price_proxy, extras))]]

(* lines 461-466: the cover run, when there are cover sheets *)
cover_step(heap, locals, args) ==
    LET stored == IF locals.cover_proxy.price_per_sheet = 0
                     /\ locals.price_proxy.price_per_sheet > 0
                  THEN store_price_per_sheet(heap, locals, "cover_proxy",
                           locals.cover_ref, locals.price_proxy.price_per_sheet)
                  ELSE [heap |-> heap, locals |-> locals]
        extras == IF args.extras = None THEN <<>> ELSE stored.heap[args.extras[1]]
    IN  IF locals.sheets.cover_sheets > 0
        THEN [heap |-> stored.heap,
              locals |-> [stored.locals EXCEPT !.cover_run =
                             Some(compute_print_run_cost(stored.locals.sheets.cover_sheets,
                                                         stored.locals.cover_proxy, extras))]]
        ELSE [heap |-> heap, locals |-> locals]

(* lines 468-493: the total, the minimum charge and the returned dictionary *)
finish_step(locals) ==
    LET inner_run == locals.inner_run[1]
        cover_run == locals.cover_run
        run_warnings == inner_run.warnings
                        \o (IF cover_run # None THEN cover_run[1].warnings ELSE <<>>)
        sum     == inner_run.total_run_cost
                   + (IF cover_run # None THEN cover_run[1].total_run_cost ELSE 0)
        floored == apply_minimum_charge(sum, locals.price_proxy.minimum_charge)
    IN  [sheets |-> [inner_sheets |-> locals.sheets.inner_sheets,
                     cover_sheets |-> locals.sheets.cover_sheets,
                     total_physical_sheets |->
                         locals.sheets.inner_sheets + locals.sheets.cover_sheets,
                     imposition |-> locals.sheets.imposition],
         runs |-> [inner |-> inner_run, cover |-> cover_run],
         total_cost |-> quantize2_half_up(floored.total_cost),
         warnings |-> IF floored.applied
                      THEN Append(run_warnings, "Applied minimum charge")
                      ELSE run_warnings]

InitConcurrent ==
    /\ pc = [t \in Threads |-> "ready"]
    /\ call \in [fn : {"concurrent"}, heap : {HeapInit}, args : [Threads -> ThreadArgs]]
    /\ ret = [t \in Threads |-> None]

Resolve(t) ==
    /\ pc[t] = "ready"
    /\ ret' = [ret EXCEPT ![t] = resolve_step(call.heap, call.args[t])]
    /\ pc' = [pc EXCEPT ![t] = "resolved"]
    /\ UNCHANGED call

InnerRun(t) ==
    /\ pc[t] = "resolved"
    /\ \E r \in {inner_step(call.heap, ret[t], call.args[t])} :
          /\ call' = [call EXCEPT !.heap = r.heap]
          /\ ret' = [ret EXCEPT ![t] = r.locals]
    /\ pc' = [pc EXCEPT ![t] = "inner"]

CoverRun(t) ==
    /\ pc[t] = "inner"
    /\ \E r \in {cover_step(call.heap, ret[t], call.args[t])} :
          /\ call' = [call EXCEPT !.heap = r.heap]
          /\ ret' = [ret EXCEPT ![t] = r.locals]
    /\ pc' = [pc EXCEPT ![t] = "cover"]

Finish(t) ==
    /\ pc[t] = "cover"
    /\ ret' = [ret EXCEPT ![t] = finish_step(ret[t])]
    /\ pc' = [pc EXCEPT ![t] = "done"]
    /\ UNCHANGED call

NextConcurrent ==
    \E t \in Threads :
        \/ Resolve(t)
        \/ InnerRun(t)
        \/ CoverRun(t)
        \/ Finish(t)

SpecConcurrent == InitConcurrent /\ [][NextConcurrent]_vars

----------------------------------------------------------------------------
(* C27.  Concurrent calls do not disturb each other. *)

(* what the call of thread t returns when it runs alone *)
Alone(t) ==
    LET a == call.args[t]
    IN  compute_total_cost(HeapInit[a.deliverable], deref(HeapInit, a.price_obj),
                           deref(HeapInit, a.cover_price_obj),
                           IF a.extras = None THEN <<>> ELSE HeapInit[a.extras[1]],
                           HeapInit.db)

(* C27: in every interleaving of the steps of two compute_total_cost calls,
   the objects the calls were given stay as they were, and a call that has
   returned has returned what it returns alone. *)
C27_CallsAreIsolated ==
    call.fn = "concurrent" =>
        /\ call.heap = HeapInit
        /\ \A t \in Threads : pc[t] = "done" => ret[t] = Alone(t)

(* both calls were given the zero-priced rule and the same extras, and each
   has stored a sheet price in a proxy built from that rule *)
C27_Witness ==
    /\ call.fn = "concurrent"
    /\ call.args[1].deliverable = "d1" /\ call.args[1].price_obj = Some("r")
    /\ call.args[1].cover_price_obj = Some("rz")
    /\ call.args[2].price_obj = Some("rz") /\ call.args[2].extras = Some("e")
    /\ call.args[1].extras = Some("e")
    /\ pc[1] = "done" /\ pc[2] = "done"
    /\ ret[1].runs.cover # None
    /\ ret[1].runs.cover[1].price_per_sheet > 0
    /\ ret[2].total_cost > 0

----------------------------------------------------------------------------
(* C28.  The defaults of items_per_sheet. *)

PerSheetDone == pc = "done" /\ call.fn = "items_per_sheet"

(* items_layout called with the same arguments, left out where the caller of
   items_per_sheet left them out *)
LayoutWithItsDefaults ==
    items_layout(call.sheet_w, call.sheet_h, call.item_w, call.item_h,
                 or_default(call.bleed, items_layout_defaults.bleed)[1],
                 or_default(call.gutter, items_layout_defaults.gutter)[1],
                 or_default(call.margin, items_layout_defaults.margin)[1], TRUE)

(* C28: items_per_sheet returns the count of items_layout called with the
   same arguments, a bleed, gutter or margin that is left out taking the
   documented default (3, 5 and 10) in both. *)
C28_DocumentedDefaults ==
    PerSheetDone => ret = LayoutWithItsDefaults.count

----------------------------------------------------------------------------
(* C29: in every breakdown compute_print_run_cost returns, total_run_cost
   is the sum of the reported running, waste, setup, makeready, finishing
   and extras costs, and running_cost is sheet_count times the reported
   price_per_sheet. *)
C29_BreakdownAddsUp ==
    RunDone =>
        /\ ret.total_run_cost =
               ret.running_cost + ret.waste_cost + ret.setup_cost
               + ret.makeready_cost + ret.finishing_cost + ret.extras_cost
        /\ ret.running_cost = ret.sheet_count * ret.price_per_sheet

----------------------------------------------------------------------------
(* C30.  One sidedness for the imposition and for the price of a booklet. *)

(* a booklet printed on sheets priced by the rule of the call *)
PricedBooklet ==
    /\ TotalDone
    /\ get(call.deliverable, "total_pages", None) # None
    /\ get(call.deliverable, "quantity", None) \notin {None, Some(0)}
    /\ call.price_obj # None
    /\ DOMAIN call.deliverable \cap PriceKeys = {}
    /\ call.price_obj[1].single_side_price # call.price_obj[1].double_side_price
    /\ ret.runs.inner.sheet_count > 0
    /\ ret.sheets.imposition.pages_per_physical_sheet > 0

(* the sides the unit price of the inner run pays for *)
SidesPriced ==
    IF ret.runs.inner.price_per_sheet = call.price_obj[1].single_side_price[1] THEN 1
    ELSE IF ret.runs.inner.price_per_sheet = call.price_obj[1].double_side_price[1] THEN 2
    ELSE 0

PageItemsPerSide ==
    LET sheet == production_sheet(call.deliverable, call.price_obj)[1]
    IN  items_per_sheet(Some(sheet.width_mm), Some(sheet.height_mm),
                        Some(call.deliverable.size[1].width_mm),
                        Some(call.deliverable.size[1].height_mm),
                        call.deliverable.bleed_mm, call.deliverable.gutter_mm,
                        call.deliverable.gripper_mm, TRUE)

(* C30: a booklet is imposed with as many sides per sheet as its unit price
   pays for: pages_per_physical_sheet is the items per side times 1 when the
   single-sided price is charged and times 2 when the double-sided price
   is. *)
C30_OneSidedness ==
    PricedBooklet =>
        ret.sheets.imposition.pages_per_physical_sheet = PageItemsPerSide * SidesPriced

====
